---------------------------- MODULE Spec2Model ----------------------------
(* Model of the log-delivery pipeline of the schedule bot:                  *)
(*   src/app/utils/custom_logging/TelegramLogHandler.py                     *)
(*       TelegramLogHandler (__init__, _start_worker, _worker, emit,        *)
(*       _split_message)                                                    *)
(*   src/app/utils/custom_logging/setup_log.py  (setup_logging)             *)
(*                                                                          *)
(* Texts are sequences of one-character strings, so len(), slicing and      *)
(* concatenation are the Python operations on str.  Time is counted in      *)
(* tenths of a second (RATE_LIMIT = 1.5 s is 15).                           *)
EXTENDS Integers, Sequences, FiniteSets, TLC

(***************************************************************************)
(* Bounds of the model                                                     *)
(***************************************************************************)
\* number of records the application logs (Spec) or hands to emit (SpecEmit)
MaxLogs == 2
\* number of calls of _start_worker, the constructor's call included
MaxStarts == 2
\* number of transport calls that fail, over the whole run
MaxFailures == 3
\* capacity of the ring buffer of recent log lines
Capacity == 2
\* number of calls of send_chat_info_log
MaxNotifies == 2
MaxPolls == 4
MaxLessons == 3
HalfLength == 1950
FullLength == 3930

(***************************************************************************)
(* Program constants                                                       *)
(***************************************************************************)
MAX_MESSAGE_LENGTH == 4000
\* RATE_LIMIT = 1.5 seconds, in tenths of a second
RATE_LIMIT == 15
\* seconds
TIME_SLEEP == 21
MAX_RETRIES == 3
\* min(self.TIME_SLEEP * retries, 60): the cap, in seconds
BACKOFF_CAP == 60
\* Queue(): maxsize 0, i.e. no capacity bound
QUEUE_MAXSIZE == 0

\* logging's numeric levels
DEBUG == 10
INFO == 20
WARNING == 30
ERROR == 40
CRITICAL == 50
\* a level registered by the application between WARNING and ERROR
CUSTOM == WARNING + 5

\* setup_logging: logger.setLevel(logging.INFO)
RootLevel == INFO
\* setup_logging: global_buffer_handler.setLevel(logging.DEBUG)
BufferLevel == DEBUG
\* setup_logging: console_handler.setLevel(logging.INFO)
ConsoleLevel == INFO
\* the Telegram handler built with level=logging.INFO
HandlerLevelInfo == INFO

\* setup_logging: TelegramLogHandler(bot, ..., level=logging.WARNING)
HandlerLevel == WARNING
\* the worker's base delay used for the sleep of send_chat_info_log
NotifySleepWorker == TIME_SLEEP

\* send_chat_info_log: asyncio.sleep(5) after an ordinary failure, seconds
NOTIFY_SLEEP == 5
POLL_FLOOD_EXTRA == 2
POLL_NETWORK_SLEEP == 5
POLL_OTHER_SLEEP == 3
SCHEDULE_MAX_MESSAGE_LENGTH == 4000

(***************************************************************************)
(* Text helpers                                                            *)
(***************************************************************************)
DigitChars == <<"0", "1", "2", "3", "4", "5", "6", "7", "8", "9">>

RECURSIVE Digits(_)
\* str(n) for n >= 0
Digits(n) == IF n < 0 THEN <<"-">> \o Digits(0 - n)
             ELSE IF n < 10 THEN <<DigitChars[n + 1]>>
             ELSE Digits(n \div 10) \o <<DigitChars[(n % 10) + 1]>>

\* s[a:b] of Python, 0-based, end exclusive, clipped at len(s)
Slice(s, a, b) == SubSeq(s, a + 1, IF b > Len(s) THEN Len(s) ELSE b)

Min(a, b) == IF a < b THEN a ELSE b

\* the message text of length n used as input: position i holds a letter that
\* depends on i, so that a lost, repeated or moved character changes the text
Letters == <<"a", "b", "c", "d", "e", "f", "g">>
Text(n) == [i \in 1..n |-> Letters[(i % 7) + 1]]

LevelName(levelno) ==
    CASE levelno = DEBUG    -> <<"D", "E", "B", "U", "G">>
      [] levelno = INFO     -> <<"I", "N", "F", "O">>
      [] levelno = WARNING  -> <<"W", "A", "R", "N", "I", "N", "G">>
      [] levelno = ERROR    -> <<"E", "R", "R", "O", "R">>
      [] levelno = CRITICAL -> <<"C", "R", "I", "T", "I", "C", "A", "L">>
      [] OTHER              -> <<"L", "e", "v", "e", "l", " ">> \o Digits(levelno)

(***************************************************************************)
(* Formatting.  The handler formats with its formatter: None gives         *)
(* logging's default "%(message)s"; setup_logging installs log_format,     *)
(* of which the model keeps the "[%(levelname)s] " prefix and the message. *)
(* A record whose message cannot be built from its arguments makes format  *)
(* raise.                                                                  *)
(***************************************************************************)
FormatRaises(record) == record.bad

Format(fmt, record) ==
    IF fmt = "log_format"
    THEN <<"[">> \o LevelName(record.levelno) \o <<"]", " ">> \o record.msg
    ELSE record.msg

(***************************************************************************)
(* State                                                                   *)
(***************************************************************************)
VARIABLES
    formatter,      \* the handler's formatter: "none" or "log_format"
    queue,          \* self._queue: the items not yet taken by a worker
    unfinished,     \* self._queue's count of items put and not yet task_done
    worker_task,    \* self._worker_task: 0 is None, else the task created
    pc,             \* per task: where its _worker coroutine is suspended
    item,           \* per task: the local item
    retries,        \* per task: the local retries
    sent,           \* per task: the local sent
    wait_time,      \* per task: the local wait_time of the sleep in progress
    buffer,         \* global_buffer_handler.buffer: recent formatted lines
    console,        \* what the console handler and stderr have received
    now,            \* elapsed time, tenths of a second
    attempts,       \* history: the transport calls made, in order
    enq,            \* history: number of items ever put on the queue
    logs,           \* history: number of records the application has logged
    start_calls,    \* history: number of calls of _start_worker
    failures,       \* history: number of failed transport calls
    last,           \* history: the last call made from outside the worker
    appended,       \* history: every line appended to the buffer, in order
    notify,         \* send_chat_info_log: the locals and position of the call
    notify_hist,    \* history: the transport calls and sleeps of that call
    puts,           \* history: every item put on the queue, as it was put
    building,       \* emit between its two reads of the ring buffer
    polling,        \* safe_polling: the position of the call and its wait_time
    polling_hist,   \* history: the calls of dp.start_polling and their outcomes
    schedule        \* format_schedule: the arguments of the call and its result

vars == <<formatter, queue, unfinished, worker_task, pc, item, retries,
          sent, wait_time, buffer, console, now, attempts, enq, logs,
          start_calls, failures, last, appended, notify, notify_hist, puts,
          building, polling, polling_hist, schedule>>

notifyVars == <<notify, notify_hist>>

pollingVars == <<polling, polling_hist>>

scheduleVars == <<schedule>>

Tasks == 1..MaxStarts
NoItem == [id |-> 0]

(***************************************************************************)
(* The ring buffer of recent log lines (global_buffer_handler)             *)
(***************************************************************************)
\* a full buffer that refuses the new line and keeps the oldest
BufferAppendKeepOldest(buf, line) ==
    IF Len(buf) >= Capacity THEN buf ELSE buf \o <<line>>

\* append: the oldest line leaves once the buffer is full
BufferAppend(buf, line) ==
    IF Len(buf) >= Capacity THEN Tail(buf) \o <<line>> ELSE buf \o <<line>>

RECURSIVE JoinLines(_)
\* "\n".join(lines)
JoinLines(lines) ==
    IF lines = <<>> THEN <<>>
    ELSE IF Len(lines) = 1 THEN lines[1]
    ELSE lines[1] \o <<"\n">> \o JoinLines(Tail(lines))

\* get_logs_as_text: the buffered lines, oldest first
GetLogsAsText(buf) == JoinLines(buf)

(***************************************************************************)
(* asyncio.Queue                                                           *)
(***************************************************************************)
\* The part of the state a logging call may change.
LogState == [queue |-> queue, unfinished |-> unfinished, enq |-> enq,
             buffer |-> buffer, console |-> console, raised |-> FALSE,
             appended |-> appended, puts |-> puts]

\* a queue built with room for one item
QueueFullAtOne(ls) == Len(ls.queue) >= 1

\* put_nowait raises QueueFull when maxsize > 0 and the queue holds maxsize items
QueueFull(ls) == QUEUE_MAXSIZE > 0 /\ Len(ls.queue) >= QUEUE_MAXSIZE

\* put_nowait when the queue is not full; the item gets its enqueue number
PutNowait(ls, it) ==
    [ls EXCEPT !.queue = Append(@, [it EXCEPT !.id = ls.enq + 1]),
               !.puts = Append(@, [it EXCEPT !.id = ls.enq + 1]),
               !.unfinished = @ + 1,
               !.enq = @ + 1]

(***************************************************************************)
(* TelegramLogHandler._split_message and emit                              *)
(***************************************************************************)
RECURSIVE SplitFromShort(_, _)
\* slices one character short: message[start:end - 1]
SplitFromShort(message, start) ==
    IF start < Len(message)
    THEN <<Slice(message, start, start + MAX_MESSAGE_LENGTH - 1)>>
         \o SplitFromShort(message, start + MAX_MESSAGE_LENGTH)
    ELSE <<>>

RECURSIVE SplitFrom(_, _)
\* the while loop of _split_message, from position start on
SplitFrom(message, start) ==
    IF start < Len(message)
    THEN <<Slice(message, start, start + MAX_MESSAGE_LENGTH)>>
         \o SplitFrom(message, start + MAX_MESSAGE_LENGTH)
    ELSE <<>>

split_message(message) == SplitFrom(message, 0)

\* f"[{idx}/{len(messages)}] "
Marker(idx, total) == <<"[">> \o Digits(idx) \o <<"/">> \o Digits(total) \o <<"]", " ">>

\* a table whose default is the entry of ERROR
LevelConfigErrorDefault(levelno) ==
    CASE levelno = WARNING ->
           [log_type |-> "PREDUPREZHDENIE", filename_prefix |-> "warning",
            emoji |-> "warning-sign"]
      [] levelno = CRITICAL ->
           [log_type |-> "KRITICHESKAYA OSHIBKA", filename_prefix |-> "critical",
            emoji |-> "collision"]
      [] OTHER ->
           [log_type |-> "OSHIBKA", filename_prefix |-> "error", emoji |-> "cross"]

\* level_config.get(record.levelno, level_config[logging.WARNING])
LevelConfig(levelno) ==
    CASE levelno = ERROR ->
           [log_type |-> "OSHIBKA", filename_prefix |-> "error", emoji |-> "cross"]
      [] levelno = CRITICAL ->
           [log_type |-> "KRITICHESKAYA OSHIBKA", filename_prefix |-> "critical",
            emoji |-> "collision"]
      [] OTHER ->
           [log_type |-> "PREDUPREZHDENIE", filename_prefix |-> "warning",
            emoji |-> "warning-sign"]

\* the header line of the combined file
FileHeader(n) == <<"=== POSLEDNIE LOGI (">> \o Digits(n) \o <<" zapisey) ===\n">>

FileSeparator(config) == <<"\n\n=== ", config.log_type, " ===\n">>

\* datetime.now().strftime("%Y-%m-%d_%H-%M-%S"): whole seconds
Timestamp(t) == Digits(t \div 10)

\* the dict put on the queue without a true "as_file"
FileItemUnflagged(ls, log_entry, levelno, t) ==
    LET config == LevelConfig(levelno)
        buffer_content == GetLogsAsText(ls.buffer)
    IN [id |-> 0,
        as_file |-> FALSE,
        file |-> FileHeader(Len(ls.buffer)) \o buffer_content
                 \o FileSeparator(config) \o log_entry,
        filename |-> <<config.filename_prefix, "_">> \o Timestamp(t) \o <<".txt">>,
        caption |-> <<config.emoji, " ", config.log_type>>]

\* the combined file with the recent logs written newest first
FileItemNewestFirst(ls, log_entry, levelno, t) ==
    LET config == LevelConfig(levelno)
        newest_first == [i \in 1..Len(ls.buffer) |-> ls.buffer[Len(ls.buffer) + 1 - i]]
    IN [id |-> 0,
        as_file |-> TRUE,
        file |-> FileHeader(Len(ls.buffer)) \o GetLogsAsText(newest_first)
                 \o FileSeparator(config) \o log_entry,
        filename |-> <<config.filename_prefix, "_">> \o Timestamp(t) \o <<".txt">>,
        caption |-> <<config.emoji, " ", config.log_type>>]

\* the combined file with the record's text written before the recent logs
FileItemEntryFirst(ls, log_entry, levelno, t) ==
    LET config == LevelConfig(levelno)
        buffer_content == GetLogsAsText(ls.buffer)
    IN [id |-> 0,
        as_file |-> TRUE,
        file |-> FileSeparator(config) \o log_entry
                 \o FileHeader(Len(ls.buffer)) \o buffer_content,
        filename |-> <<config.filename_prefix, "_">> \o Timestamp(t) \o <<".txt">>,
        caption |-> <<config.emoji, " ", config.log_type>>]

\* the dict put on the queue for WARNING and above
FileItem(ls, log_entry, levelno, t) ==
    LET config == LevelConfig(levelno)
        buffer_content == GetLogsAsText(ls.buffer)
    IN [id |-> 0,
        as_file |-> TRUE,
        file |-> FileHeader(Len(ls.buffer)) \o buffer_content
                 \o FileSeparator(config) \o log_entry,
        filename |-> <<config.filename_prefix, "_">> \o Timestamp(t) \o <<".txt">>,
        caption |-> <<config.emoji, " ", config.log_type>>]

\* the str put on the queue for a chunk of an INFO text
TextItem(messages, idx) ==
    [id |-> 0,
     text |-> IF Len(messages) > 1
              THEN Marker(idx, Len(messages)) \o messages[idx]
              ELSE messages[idx]]

RECURSIVE PutChunks(_, _, _)
\* for idx, chunk in enumerate(messages, 1): ... put_nowait(chunk)
PutChunks(ls, messages, idx) ==
    IF idx > Len(messages) THEN ls
    ELSE IF QueueFull(ls) THEN [ls EXCEPT !.raised = TRUE]
    ELSE PutChunks(PutNowait(ls, TextItem(messages, idx)), messages, idx + 1)

\* the try block of emit; raised tells that an exception left the block
EmitTry(ls, fmt, record, t) ==
    IF FormatRaises(record) THEN [ls EXCEPT !.raised = TRUE]
    ELSE LET log_entry == Format(fmt, record) IN
         IF record.levelno >= WARNING
         THEN IF QueueFull(ls) THEN [ls EXCEPT !.raised = TRUE]
              ELSE PutNowait(ls, FileItem(ls, log_entry, record.levelno, t))
         ELSE PutChunks(ls, split_message(log_entry), 1)

\* logging.Handler.handleError: a traceback on stderr, nothing else
HandleError(ls, record) ==
    [ls EXCEPT !.console = Append(@, [levelno |-> record.levelno, msg |-> <<"handleError">>]),
               !.raised = FALSE]

\* emit without the except clause: the exception reaches the caller
EmitCallUncaught(ls, fmt, record, t) == EmitTry(ls, fmt, record, t)

\* emit: the try block, and handleError for any exception
EmitCall(ls, fmt, record, t) ==
    LET r == EmitTry(ls, fmt, record, t)
    IN IF r.raised THEN HandleError(r, record) ELSE r

(***************************************************************************)
(* The root logger as setup_logging configures it: console handler, then   *)
(* the buffer handler, then the Telegram handler.                          *)
(***************************************************************************)
ConsoleEmit(ls, record) ==
    IF FormatRaises(record)
    THEN [ls EXCEPT !.console = Append(@, [levelno |-> record.levelno, msg |-> <<"handleError">>])]
    ELSE [ls EXCEPT !.console = Append(@, [levelno |-> record.levelno, msg |-> record.msg])]

BufferEmit(ls, record) ==
    IF FormatRaises(record)
    THEN [ls EXCEPT !.console = Append(@, [levelno |-> record.levelno, msg |-> <<"handleError">>])]
    ELSE [ls EXCEPT !.buffer = BufferAppend(@, Format("log_format", record)),
                    !.appended = Append(@, Format("log_format", record))]

\* the Telegram handler called before the buffer handler
LogCallTelegramFirst(ls, fmt, record, t) ==
    IF record.levelno < RootLevel THEN ls
    ELSE LET a == IF record.levelno >= ConsoleLevel THEN ConsoleEmit(ls, record) ELSE ls
             b == IF record.levelno >= HandlerLevel THEN EmitCall(a, fmt, record, t) ELSE a
         IN IF record.levelno >= BufferLevel THEN BufferEmit(b, record) ELSE b

\* Logger.callHandlers: each handler whose level the record reaches
LogCall(ls, fmt, record, t) ==
    IF record.levelno < RootLevel THEN ls
    ELSE LET a == IF record.levelno >= ConsoleLevel THEN ConsoleEmit(ls, record) ELSE ls
             b == IF record.levelno >= BufferLevel THEN BufferEmit(a, record) ELSE a
         IN IF record.levelno >= HandlerLevel THEN EmitCall(b, fmt, record, t) ELSE b

\* the conjunct that writes a logging call's result to the state
SetLogState(ls) ==
    /\ queue' = ls.queue
    /\ unfinished' = ls.unfinished
    /\ enq' = ls.enq
    /\ buffer' = ls.buffer
    /\ console' = ls.console
    /\ appended' = ls.appended
    /\ puts' = ls.puts

(***************************************************************************)
(* The records of the worker's own logging calls                           *)
(***************************************************************************)
FloodRecord(w, n) ==
    [levelno |-> INFO, bad |-> FALSE,
     msg |-> <<"Flood control. Ozhidanie ">> \o Digits(w \div 10)
             \o <<" sekund pered povtornoy popytkoy ">> \o Digits(n + 1)
             \o <<"/">> \o Digits(MAX_RETRIES)]

RetryRecord(w, n) ==
    [levelno |-> INFO, bad |-> FALSE,
     msg |-> <<"Ne udalos otpravit log (popytka ">> \o Digits(n)
             \o <<"). Povtor cherez ">> \o Digits(w \div 10) \o <<" sek.">>]

DropRecord ==
    [levelno |-> ERROR, bad |-> FALSE,
     msg |-> <<"Ne udalos otpravit log posle ">> \o Digits(MAX_RETRIES)
             \o <<" popytok">>]

(***************************************************************************)
(* Inputs                                                                  *)
(***************************************************************************)
\* the records the application logs through the root logger
AppRecords ==
    [levelno : {INFO, WARNING},
     msg : {<<"b", "o", "o", "m">>}, bad : {FALSE}]
    \cup [levelno : {WARNING}, msg : {<<"%", "d">>}, bad : {TRUE}]

\* the lengths of the texts handed to emit directly
EmitLengths == {0, 1, MAX_MESSAGE_LENGTH - 1, MAX_MESSAGE_LENGTH,
                MAX_MESSAGE_LENGTH + 1, 2 * MAX_MESSAGE_LENGTH + 1,
                9 * MAX_MESSAGE_LENGTH + 1}

\* the records handed to emit directly
EmitRecords ==
    [levelno : {INFO}, msg : {Text(n) : n \in EmitLengths}, bad : {FALSE}]
    \cup [levelno : {DEBUG, WARNING, CUSTOM, ERROR, CRITICAL}, msg : {Text(1)},
          bad : {FALSE}]
    \cup [levelno : {INFO, WARNING}, msg : {Text(1)}, bad : {TRUE}]

\* records of every level, well-formed or not, for the root logger alone
LogRecords ==
    [levelno : {DEBUG, INFO, WARNING, CUSTOM, ERROR, CRITICAL},
     msg : {<<"b", "o", "o", "m">>}, bad : BOOLEAN]

\* the waits, in seconds, a flood-control failure may carry
FloodWaits == {10}

\* the values of max_retries send_chat_info_log is called with, the default
\* among them
NotifyMaxRetries == {0 - 1, 0, 1, MAX_RETRIES}

(***************************************************************************)
(* Init: the state after setup_logging built the handler.  The constructor *)
(* made the first call of _start_worker.                                   *)
(***************************************************************************)
InitState ==
    /\ queue = <<>>
    /\ unfinished = 0
    /\ worker_task = 1
    /\ pc = [w \in Tasks |-> IF w = 1 THEN "get" ELSE "none"]
    /\ item = [w \in Tasks |-> NoItem]
    /\ retries = [w \in Tasks |-> 0]
    /\ sent = [w \in Tasks |-> FALSE]
    /\ wait_time = [w \in Tasks |-> 0]
    /\ now = 0
    /\ attempts = <<>>
    /\ enq = 0
    /\ logs = 0
    /\ start_calls = 1
    /\ failures = 0
    /\ last = [op |-> "init"]
    /\ puts = <<>>
    /\ building = [active |-> FALSE]
    /\ notify = [pc |-> "idle", calls |-> 0, max_retries |-> 0, retries |-> 0,
                 sent |-> FALSE, wait |-> 0, outcome |-> "none"]
    /\ notify_hist = <<>>
    /\ polling = [pc |-> "idle", starts |-> 0, wait |-> 0, outcome |-> "none",
                  printed |-> FALSE]
    /\ polling_hist = <<>>

\* format_schedule was not called
NoSchedule ==
    [pc |-> "none", lessons |-> <<>>, week |-> "full", header_prefix |-> <<>>,
     result |-> <<>>]

\* nothing was logged before
InitCommon ==
    /\ InitState
    /\ buffer = <<>>
    /\ console = <<>>
    /\ appended = <<>>

Init ==
    /\ formatter = "log_format"
    /\ InitCommon
    /\ schedule = NoSchedule

\* a handler with or without a formatter, for the direct calls of emit
InitEmit ==
    /\ formatter \in {"none", "log_format"}
    /\ InitCommon
    /\ schedule = NoSchedule

\* the i-th of the INFO records logged before the run starts
PriorRecord(i) == [levelno |-> INFO, msg |-> <<Letters[i]>>, bad |-> FALSE]

RECURSIVE PriorState(_)
\* what k INFO records logged through the root logger leave behind
PriorState(k) ==
    IF k = 0
    THEN [queue |-> <<>>, unfinished |-> 0, enq |-> 0, buffer |-> <<>>,
          console |-> <<>>, raised |-> FALSE, appended |-> <<>>, puts |-> <<>>]
    ELSE LogCall(PriorState(k - 1), "log_format", PriorRecord(k), 0)

\* the handler of setup_logging after up to Capacity + 1 INFO records
InitPayload ==
    /\ formatter = "log_format"
    /\ InitState
    /\ schedule = NoSchedule
    /\ \E k \in 0..(Capacity + 1) :
          /\ buffer = PriorState(k).buffer
          /\ console = PriorState(k).console
          /\ appended = PriorState(k).appended

workerVars == <<pc, item, retries, sent, wait_time>>

(***************************************************************************)
(* Calls from outside the worker                                           *)
(***************************************************************************)
\* the application logs a record through the root logger
Log(record) ==
    /\ logs < MaxLogs
    /\ logs' = logs + 1
    /\ LET ls == LogCall(LogState, formatter, record, now)
       IN /\ SetLogState(ls)
          /\ last' = [op |-> "log", record |-> record, raised |-> ls.raised,
                      enq |-> enq, at |-> pc]
    /\ UNCHANGED <<notifyVars, pollingVars, scheduleVars, building, formatter, worker_task, workerVars, now, attempts,
                   start_calls, failures>>

\* handler.emit(record) called directly
Emit(record) ==
    /\ logs < MaxLogs
    /\ logs' = logs + 1
    /\ LET ls == EmitCall(LogState, formatter, record, now)
       IN /\ SetLogState(ls)
          /\ last' = [op |-> "emit", record |-> record, raised |-> ls.raised,
                      enq |-> enq, at |-> pc]
    /\ UNCHANGED <<notifyVars, pollingVars, scheduleVars, building, formatter, worker_task, workerVars, now, attempts,
                   start_calls, failures>>

\* emit for a record from WARNING up, as far as the first read of the ring
\* buffer: format, timestamp, level_config, get_logs_as_text.  entries keeps
\* the number of lines that text was made of.
EmitRead(record) ==
    /\ ~building.active
    /\ logs < MaxLogs
    /\ record.levelno >= WARNING
    /\ ~FormatRaises(record)
    /\ logs' = logs + 1
    /\ building' = [active |-> TRUE, record |-> record,
                    log_entry |-> Format(formatter, record), t |-> now,
                    buffer_content |-> GetLogsAsText(buffer),
                    entries |-> Len(buffer)]
    /\ last' = [op |-> "emit", record |-> record, raised |-> FALSE, enq |-> enq,
                at |-> pc]
    /\ UNCHANGED <<notifyVars, pollingVars, scheduleVars, formatter, queue, unfinished, worker_task, workerVars,
                   buffer, appended, puts, console, now, attempts, enq, start_calls,
                   failures>>

\* the rest of that emit: len(global_buffer_handler.buffer) is read for the
\* header, the file is written and put on the queue
EmitWrite ==
    /\ building.active
    /\ LET config == LevelConfig(building.record.levelno)
           it == [id |-> 0,
                  as_file |-> TRUE,
                  file |-> FileHeader(Len(buffer)) \o building.buffer_content
                           \o FileSeparator(config) \o building.log_entry,
                  filename |-> <<config.filename_prefix, "_">>
                               \o Timestamp(building.t) \o <<".txt">>,
                  caption |-> <<config.emoji, " ", config.log_type>>]
       IN SetLogState(IF QueueFull(LogState)
                      THEN HandleError(LogState, building.record)
                      ELSE PutNowait(LogState, it))
    /\ building' = [active |-> FALSE]
    /\ UNCHANGED <<notifyVars, pollingVars, scheduleVars, formatter, worker_task, workerVars, now, attempts, logs,
                   start_calls, failures, last>>

\* _start_worker without the test of self._worker_task
StartWorkerAlways ==
    /\ start_calls < MaxStarts
    /\ start_calls' = start_calls + 1
    /\ worker_task' = start_calls + 1
    /\ pc' = [pc EXCEPT ![start_calls + 1] = "get"]
    /\ last' = [op |-> "start"]
    /\ UNCHANGED <<notifyVars, pollingVars, scheduleVars, building, formatter, queue, unfinished, item, retries, sent, wait_time,
                   buffer, appended, puts, console, now, attempts, enq, logs, failures>>

\* a start that also replaces a recorded task that has ended
StartWorkerRestarts ==
    /\ start_calls < MaxStarts
    /\ start_calls' = start_calls + 1
    /\ IF worker_task = 0 \/ pc[worker_task] = "done"
       THEN /\ worker_task' = start_calls + 1
            /\ pc' = [pc EXCEPT ![start_calls + 1] = "get"]
       ELSE UNCHANGED <<worker_task, pc>>
    /\ last' = [op |-> "start"]
    /\ UNCHANGED <<notifyVars, pollingVars, scheduleVars, building, formatter, queue, unfinished, item, retries,
                   sent, wait_time, buffer, appended, puts, console, now, attempts, enq,
                   logs, failures>>

\* _start_worker: a task is created only when none is recorded
StartWorker ==
    /\ start_calls < MaxStarts
    /\ start_calls' = start_calls + 1
    /\ IF worker_task = 0
       THEN /\ worker_task' = start_calls + 1
            /\ pc' = [pc EXCEPT ![start_calls + 1] = "get"]
       ELSE UNCHANGED <<worker_task, pc>>
    /\ last' = [op |-> "start"]
    /\ UNCHANGED <<notifyVars, pollingVars, scheduleVars, building, formatter, queue, unfinished, item, retries, sent, wait_time,
                   buffer, appended, puts, console, now, attempts, enq, logs, failures>>

(***************************************************************************)
(* TelegramLogHandler._worker, one action per suspension point             *)
(***************************************************************************)
\* isinstance(item, str) / isinstance(item, dict) and item.get("as_file")
Kind(it) ==
    IF "text" \in DOMAIN it THEN "str"
    ELSE IF "as_file" \in DOMAIN it /\ it.as_file THEN "file"
    ELSE "other"

\* the transport call the worker makes for an item
TransportCall(it) ==
    IF Kind(it) = "str" THEN "send_message" ELSE "send_document"

\* the bytes of a file read from where the last read stopped: nothing is
\* left of them after the first call
DocumentFromPosition(w) == IF retries[w] > 0 THEN <<>> ELSE item[w].file

\* file_bytes.seek(0); file_bytes.getvalue(): the whole content of the file
Document(w) == item[w].file

\* what the transport call is given
Payload(w) ==
    IF Kind(item[w]) = "str" THEN [text |-> item[w].text]
    ELSE [document |-> Document(w), filename |-> item[w].filename,
          caption |-> item[w].caption]

\* a transport call as the history keeps it: what it was given, when it was
\* made, after how many failed calls for the item, and the sleep and
\* retry_after that follow it
Attempt(w, result) ==
    [id |-> item[w].id, task |-> w, call |-> TransportCall(item[w]),
     payload |-> Payload(w),
     result |-> result, time |-> now, n |-> retries[w], wait |-> 0,
     retry_after |-> 0]

\* min(self.TIME_SLEEP * retries, 60), in tenths of a second
Backoff(n) == 10 * Min(TIME_SLEEP * n, BACKOFF_CAP)

\* e.retry_after without the two seconds added
FloodWaitBare(d) == 10 * d

\* e.retry_after + 2, in tenths of a second
FloodWait(d) == 10 * (d + 2)

\* the loop condition with <= for <
LoopAgainInclusive(s, n) == ~s /\ n <= MAX_RETRIES

\* while not sent and retries < self.MAX_RETRIES
LoopAgain(s, n) == ~s /\ n < MAX_RETRIES

\* a get that takes the newest item instead of the oldest
WorkerGetNewest(w) ==
    /\ pc[w] = "get"
    /\ queue # <<>>
    /\ item' = [item EXCEPT ![w] = queue[Len(queue)]]
    /\ queue' = SubSeq(queue, 1, Len(queue) - 1)
    /\ retries' = [retries EXCEPT ![w] = 0]
    /\ sent' = [sent EXCEPT ![w] = FALSE]
    /\ pc' = [pc EXCEPT ![w] = "send"]
    /\ UNCHANGED <<notifyVars, pollingVars, scheduleVars, building, formatter, unfinished, worker_task, wait_time, buffer, appended, puts, console,
                   now, attempts, enq, logs, start_calls, failures, last>>

\* item = await self._queue.get(); retries = 0; sent = False
WorkerGet(w) ==
    /\ pc[w] = "get"
    /\ queue # <<>>
    /\ item' = [item EXCEPT ![w] = Head(queue)]
    /\ queue' = Tail(queue)
    /\ retries' = [retries EXCEPT ![w] = 0]
    /\ sent' = [sent EXCEPT ![w] = FALSE]
    /\ pc' = [pc EXCEPT ![w] = IF LoopAgain(FALSE, 0) THEN "send" ELSE "rate"]
    /\ UNCHANGED <<notifyVars, pollingVars, scheduleVars, building, formatter, unfinished, worker_task, wait_time, buffer, appended, puts, console,
                   now, attempts, enq, logs, start_calls, failures, last>>

\* a successful send that leaves sent False
SendOkUnmarked(w) ==
    /\ pc[w] = "send"
    /\ attempts' = Append(attempts, Attempt(w, "ok"))
    /\ pc' = [pc EXCEPT ![w] = IF LoopAgain(sent[w], retries[w]) THEN "send" ELSE "rate"]
    /\ UNCHANGED <<notifyVars, pollingVars, scheduleVars, building, formatter, queue, unfinished, worker_task, item, retries, sent,
                   wait_time, buffer, appended, puts, console, now, enq, logs, start_calls,
                   failures, last>>

\* the awaited send returns: sent = True, the loop ends
SendOk(w) ==
    /\ pc[w] = "send"
    /\ attempts' = IF Kind(item[w]) = "other" THEN attempts
                   ELSE Append(attempts, Attempt(w, "ok"))
    /\ sent' = [sent EXCEPT ![w] = TRUE]
    /\ pc' = [pc EXCEPT ![w] = IF LoopAgain(TRUE, retries[w]) THEN "send" ELSE "rate"]
    /\ UNCHANGED <<notifyVars, pollingVars, scheduleVars, building, formatter, queue, unfinished, worker_task, item, retries,
                   wait_time, buffer, appended, puts, console, now, enq, logs, start_calls,
                   failures, last>>

\* the awaited send raises TelegramRetryAfter(retry_after = d)
SendFlood(w, d) ==
    /\ pc[w] = "send"
    /\ Kind(item[w]) # "other"
    /\ failures < MaxFailures
    /\ failures' = failures + 1
    /\ attempts' = Append(attempts, [Attempt(w, "flood") EXCEPT
                                       !.wait = FloodWait(d), !.retry_after = d])
    /\ wait_time' = [wait_time EXCEPT ![w] = FloodWait(d)]
    /\ SetLogState(LogCall(LogState, formatter,
                           FloodRecord(FloodWait(d), retries[w]), now))
    /\ pc' = [pc EXCEPT ![w] = "sleep"]
    /\ UNCHANGED <<notifyVars, pollingVars, scheduleVars, building, formatter, worker_task, item, retries, sent, now, logs,
                   start_calls, last>>

\* a backoff scaled by the item's ordinary failures only, flood control
\* failures not counted
SendFailOrdinaryCount(w) ==
    LET k == Cardinality({i \in DOMAIN attempts :
                            /\ attempts[i].id = item[w].id
                            /\ attempts[i].result = "error"})
    IN
    /\ pc[w] = "send"
    /\ Kind(item[w]) # "other"
    /\ failures < MaxFailures
    /\ failures' = failures + 1
    /\ attempts' = Append(attempts, [Attempt(w, "error") EXCEPT !.wait = Backoff(k)])
    /\ wait_time' = [wait_time EXCEPT ![w] = Backoff(k)]
    /\ SetLogState(LogCall(LogState, formatter, RetryRecord(Backoff(k), retries[w]), now))
    /\ pc' = [pc EXCEPT ![w] = "sleep"]
    /\ UNCHANGED <<notifyVars, pollingVars, scheduleVars, building, formatter, worker_task, item, retries, sent, now, logs,
                   start_calls, last>>

\* the awaited send raises any other Exception
SendFail(w) ==
    /\ pc[w] = "send"
    /\ Kind(item[w]) # "other"
    /\ failures < MaxFailures
    /\ failures' = failures + 1
    /\ attempts' = Append(attempts, [Attempt(w, "error") EXCEPT
                                       !.wait = Backoff(retries[w])])
    /\ wait_time' = [wait_time EXCEPT ![w] = Backoff(retries[w])]
    /\ SetLogState(LogCall(LogState, formatter,
                           RetryRecord(Backoff(retries[w]), retries[w]), now))
    /\ pc' = [pc EXCEPT ![w] = "sleep"]
    /\ UNCHANGED <<notifyVars, pollingVars, scheduleVars, building, formatter, worker_task, item, retries, sent, now, logs,
                   start_calls, last>>

\* the end of the loop without the logging.error
AfterLoopSilent(w, t) == LogState

\* what follows the loop: logging.error when the item was not sent
AfterLoop(w, t) ==
    IF sent[w] THEN LogState
    ELSE LogCall(LogState, formatter, DropRecord, t)

\* a failure handler that sleeps only when another call follows
WakeRetryNoLastSleep(w) ==
    /\ pc[w] = "sleep"
    /\ now' = IF LoopAgain(sent[w], retries[w] + 1) THEN now + wait_time[w] ELSE now
    /\ retries' = [retries EXCEPT ![w] = @ + 1]
    /\ IF LoopAgain(sent[w], retries[w] + 1)
       THEN /\ pc' = [pc EXCEPT ![w] = "send"]
            /\ UNCHANGED <<queue, unfinished, enq, buffer, appended, puts, console>>
       ELSE /\ pc' = [pc EXCEPT ![w] = "rate"]
            /\ SetLogState(AfterLoop(w, now + wait_time[w]))
    /\ UNCHANGED <<notifyVars, pollingVars, scheduleVars, building, formatter, worker_task, item, sent, wait_time, attempts, logs,
                   start_calls, failures, last>>

\* asyncio.sleep(wait_time) returns: retries += 1, the loop condition is
\* evaluated again and, when the loop ends, the drop is logged
WakeRetry(w) ==
    /\ pc[w] = "sleep"
    /\ now' = now + wait_time[w]
    /\ retries' = [retries EXCEPT ![w] = @ + 1]
    /\ IF LoopAgain(sent[w], retries[w] + 1)
       THEN /\ pc' = [pc EXCEPT ![w] = "send"]
            /\ UNCHANGED <<queue, unfinished, enq, buffer, appended, puts, console>>
       ELSE /\ pc' = [pc EXCEPT ![w] = "rate"]
            /\ SetLogState(AfterLoop(w, now + wait_time[w]))
    /\ UNCHANGED <<notifyVars, pollingVars, scheduleVars, building, formatter, worker_task, item, sent, wait_time, attempts, logs,
                   start_calls, failures, last>>

\* task_done called for the items that were sent only
RateDoneSentOnly(w) ==
    /\ pc[w] = "rate"
    /\ now' = now + RATE_LIMIT
    /\ unfinished' = IF sent[w] THEN unfinished - 1 ELSE unfinished
    /\ item' = [item EXCEPT ![w] = NoItem]
    /\ pc' = [pc EXCEPT ![w] = "get"]
    /\ UNCHANGED <<notifyVars, pollingVars, scheduleVars, building, formatter, queue, worker_task, retries, sent,
                   wait_time, buffer, appended, puts, console, attempts, enq, logs,
                   start_calls, failures, last>>

\* the end of an iteration without the sleep of RATE_LIMIT
RateDoneNoSleep(w) ==
    /\ pc[w] = "rate"
    /\ unfinished' = unfinished - 1
    /\ item' = [item EXCEPT ![w] = NoItem]
    /\ pc' = [pc EXCEPT ![w] = "get"]
    /\ UNCHANGED <<notifyVars, pollingVars, scheduleVars, building, formatter, queue, worker_task, retries, sent, wait_time,
                   buffer, appended, puts, console, attempts, enq, logs, start_calls,
                   failures, last, now>>

\* asyncio.sleep(self.RATE_LIMIT) returns: task_done(), next iteration
RateDone(w) ==
    /\ pc[w] = "rate"
    /\ now' = now + RATE_LIMIT
    /\ unfinished' = unfinished - 1
    /\ item' = [item EXCEPT ![w] = NoItem]
    /\ pc' = [pc EXCEPT ![w] = "get"]
    /\ UNCHANGED <<notifyVars, pollingVars, scheduleVars, building, formatter, queue, worker_task, retries, sent, wait_time,
                   buffer, appended, puts, console, attempts, enq, logs, start_calls, failures,
                   last>>

\* the task ends at one of its awaits: it is cancelled, or an exception
\* leaves the loop; self._worker_task keeps the task object
Terminate(w) ==
    /\ pc[w] \in {"get", "send", "sleep", "rate"}
    /\ pc' = [pc EXCEPT ![w] = "done"]
    /\ last' = [op |-> "cancel"]
    /\ UNCHANGED <<notifyVars, pollingVars, scheduleVars, building, formatter, queue, unfinished, worker_task, item,
                   retries, sent, wait_time, buffer, appended, puts, console, now,
                   attempts, enq, logs, start_calls, failures>>

Worker(w) ==
    \/ WorkerGet(w)
    \/ SendOk(w)
    \/ \E d \in FloodWaits : SendFlood(w, d)
    \/ SendFail(w)
    \/ WakeRetry(w)
    \/ RateDone(w)

(***************************************************************************)
(* send_chat_info_log: the direct send of an informational message, with   *)
(* its own retry loop.  Its logging calls go through the root logger.      *)
(***************************************************************************)
NotifyFloodRecord(w, n, m) ==
    [levelno |-> INFO, bad |-> FALSE,
     msg |-> <<"Flood control pri otpravke info loga. Ozhidanie ">>
             \o Digits(w \div 10) \o <<" sekund. Popytka ">> \o Digits(n)
             \o <<"/">> \o Digits(m)]

NotifyMigrateRecord ==
    [levelno |-> WARNING, bad |-> FALSE,
     msg |-> <<"Gruppa dlya logov byla perenesena v super gruppu. Obnovite chat_id.">>]

NotifyFailRecord(n, m) ==
    [levelno |-> INFO, bad |-> FALSE,
     msg |-> <<"Ne udalos otpravit info log. Popytka ">> \o Digits(n)
             \o <<"/">> \o Digits(m)]

NotifyGiveUpRecord(m) ==
    [levelno |-> ERROR, bad |-> FALSE,
     msg |-> <<"Ne udalos otpravit info log posle ">> \o Digits(m) \o <<" popytok">>]

\* one awaited bot_info_log.send_message and its outcome
NotifyAttempt(result) ==
    [call |-> notify.calls, result |-> result, time |-> now, n |-> notify.retries,
     m |-> notify.max_retries, retry_after |-> 0]

\* a loop condition that allows one call more
NotifyLoopAgainInclusive(s, n, m) == ~s /\ n <= m

\* while not sent and retries < max_retries
NotifyLoopAgain(s, n, m) == ~s /\ n < m

\* if not sent: logging.error(...); the function returns
NotifyAfterLoop(ls, s, m, t) ==
    IF s THEN ls ELSE LogCall(ls, formatter, NotifyGiveUpRecord(m), t)

notifyFrame ==
    UNCHANGED <<building, formatter, worker_task, workerVars, attempts, logs, start_calls,
                failures, last, pollingVars, scheduleVars>>

\* a call that enters the loop body before testing the loop condition
NotifyCallSendsFirst(m) ==
    /\ notify.pc = "idle"
    /\ notify.calls < MaxNotifies
    /\ notify' = [pc |-> "send", calls |-> notify.calls + 1, max_retries |-> m,
                  retries |-> 0, sent |-> FALSE, wait |-> 0, outcome |-> "none"]
    /\ UNCHANGED <<queue, unfinished, enq, buffer, appended, puts, console>>
    /\ UNCHANGED <<notify_hist, now>>
    /\ notifyFrame

\* the call: retries = 0, sent = False, the loop condition evaluated once
NotifyCall(m) ==
    /\ notify.pc = "idle"
    /\ notify.calls < MaxNotifies
    /\ IF NotifyLoopAgain(FALSE, 0, m)
       THEN /\ notify' = [pc |-> "send", calls |-> notify.calls + 1, max_retries |-> m,
                          retries |-> 0, sent |-> FALSE, wait |-> 0, outcome |-> "none"]
            /\ UNCHANGED <<queue, unfinished, enq, buffer, appended, puts, console>>
       ELSE /\ notify' = [pc |-> "idle", calls |-> notify.calls + 1, max_retries |-> m,
                          retries |-> 0, sent |-> FALSE, wait |-> 0,
                          outcome |-> "returned"]
            /\ SetLogState(NotifyAfterLoop(LogState, FALSE, m, now))
    /\ UNCHANGED <<notify_hist, now>>
    /\ notifyFrame

\* the send returns: sent = True, the loop and the function end
NotifySendOk ==
    /\ notify.pc = "send"
    /\ notify_hist' = Append(notify_hist, NotifyAttempt("ok"))
    /\ notify' = [notify EXCEPT !.pc = "idle", !.sent = TRUE, !.outcome = "returned"]
    /\ UNCHANGED <<queue, unfinished, enq, buffer, appended, puts, console, now>>
    /\ notifyFrame

\* the send raises TelegramRetryAfter with retry_after = d
NotifySendFlood(d) ==
    /\ notify.pc = "send"
    /\ notify_hist' = Append(notify_hist,
                             [NotifyAttempt("flood") EXCEPT !.retry_after = d])
    /\ notify' = [notify EXCEPT !.pc = "sleep", !.retries = @ + 1,
                                !.wait = FloodWait(d)]
    /\ SetLogState(LogCall(LogState, formatter,
          NotifyFloodRecord(FloodWait(d), notify.retries + 1, notify.max_retries), now))
    /\ UNCHANGED now
    /\ notifyFrame

\* a migration handled as one more failure to retry after five seconds
NotifyMigrateRetries ==
    /\ notify.pc = "send"
    /\ notify_hist' = Append(notify_hist, NotifyAttempt("migrate"))
    /\ LET n == notify.retries + 1
           m == notify.max_retries
           ls == LogCall(LogState, formatter, NotifyMigrateRecord, now)
       IN IF n < m
          THEN /\ notify' = [notify EXCEPT !.pc = "sleep", !.retries = n,
                                           !.wait = 10 * NOTIFY_SLEEP]
               /\ SetLogState(ls)
          ELSE /\ notify' = [notify EXCEPT !.pc = "idle", !.retries = n,
                                           !.outcome = "returned"]
               /\ SetLogState(NotifyAfterLoop(ls, FALSE, m, now))
    /\ UNCHANGED now
    /\ notifyFrame

\* the send raises TelegramMigrateToChat: logging.warning, break, and the
\* logging.error after the loop
NotifyMigrate ==
    /\ notify.pc = "send"
    /\ notify_hist' = Append(notify_hist, NotifyAttempt("migrate"))
    /\ notify' = [notify EXCEPT !.pc = "idle", !.outcome = "returned"]
    /\ SetLogState(NotifyAfterLoop(
          LogCall(LogState, formatter, NotifyMigrateRecord, now),
          FALSE, notify.max_retries, now))
    /\ UNCHANGED now
    /\ notifyFrame

\* a failed send that lets its exception leave the function
NotifySendFailRaises ==
    /\ notify.pc = "send"
    /\ notify_hist' = Append(notify_hist, NotifyAttempt("error"))
    /\ notify' = [notify EXCEPT !.pc = "idle", !.outcome = "raised"]
    /\ UNCHANGED <<queue, unfinished, enq, buffer, appended, puts, console, now>>
    /\ notifyFrame

\* the send raises any other Exception: logging.info, and a sleep of five
\* seconds unless this was the last call allowed
NotifySendFail ==
    /\ notify.pc = "send"
    /\ notify_hist' = Append(notify_hist, NotifyAttempt("error"))
    /\ LET n == notify.retries + 1
           m == notify.max_retries
           ls == LogCall(LogState, formatter, NotifyFailRecord(n, m), now)
       IN IF n < m
          THEN /\ notify' = [notify EXCEPT !.pc = "sleep", !.retries = n,
                                           !.wait = 10 * NOTIFY_SLEEP]
               /\ SetLogState(ls)
          ELSE /\ notify' = [notify EXCEPT !.pc = "idle", !.retries = n,
                                           !.outcome = "returned"]
               /\ SetLogState(NotifyAfterLoop(ls, FALSE, m, now))
    /\ UNCHANGED now
    /\ notifyFrame

\* asyncio.sleep returns: the loop condition is evaluated again
NotifyWake ==
    /\ notify.pc = "sleep"
    /\ now' = now + notify.wait
    /\ IF NotifyLoopAgain(notify.sent, notify.retries, notify.max_retries)
       THEN /\ notify' = [notify EXCEPT !.pc = "send", !.wait = 0]
            /\ UNCHANGED <<queue, unfinished, enq, buffer, appended, puts, console>>
       ELSE /\ notify' = [notify EXCEPT !.pc = "idle", !.wait = 0,
                                        !.outcome = "returned"]
            /\ SetLogState(NotifyAfterLoop(LogState, notify.sent,
                                           notify.max_retries, now + notify.wait))
    /\ UNCHANGED notify_hist
    /\ notifyFrame

Notify ==
    \/ \E m \in NotifyMaxRetries : NotifyCall(m)
    \/ NotifySendOk
    \/ \E d \in FloodWaits : NotifySendFlood(d)
    \/ NotifyMigrate
    \/ NotifySendFail
    \/ NotifyWake

(***************************************************************************)
(* safe_polling: dp.start_polling restarted after temporary failures       *)
(***************************************************************************)
\* the values of e.retry_after dp.start_polling fails with
PollRetryAfters == {1, 10}

PollUnauthorizedRecord ==
    [levelno |-> CRITICAL, bad |-> FALSE,
     msg |-> <<"Oshibka avtorizatsii Telegram - nevernyy token.">>]

PollFloodRecord(w) ==
    [levelno |-> WARNING, bad |-> FALSE,
     msg |-> <<"Flood control GetUpdates. Ozhidanie ">> \o Digits(w \div 10)
             \o <<" sekund...">>]

PollNetworkRecord ==
    [levelno |-> ERROR, bad |-> FALSE,
     msg |-> <<"Oshibka seti pri obrashchenii k Telegram API. Perezapusk cherez 5 sekund...">>]

PollOtherRecord ==
    [levelno |-> ERROR, bad |-> FALSE,
     msg |-> <<"Neobrabotannaya oshibka v polling, perezapusk cherez 3 sekundy. Oshibka: e">>]

\* one awaited dp.start_polling and its outcome
PollAttempt(result) ==
    [result |-> result, time |-> now, n |-> polling.starts, retry_after |-> 0]

\* e.retry_after + 2, in tenths of a second
PollFloodWait(d) == 10 * (d + POLL_FLOOD_EXTRA)

\* a loop that gives up after MAX_RETRIES calls of dp.start_polling
PollAgainBounded(n) == n < MAX_RETRIES

\* while True
PollAgain(n) == TRUE

pollingFrame ==
    UNCHANGED <<building, formatter, worker_task, workerVars, attempts, logs, start_calls,
                failures, last, notifyVars, scheduleVars>>

\* the call: the loop is entered and dp.start_polling awaited
SafePollingCall ==
    /\ polling.pc = "idle"
    /\ polling.starts = 0
    /\ PollAgain(0)
    /\ polling' = [polling EXCEPT !.pc = "polling", !.starts = 1]
    /\ UNCHANGED <<queue, unfinished, enq, buffer, appended, puts, console, now,
                   polling_hist>>
    /\ pollingFrame

\* dp.start_polling returns: break
PollReturns ==
    /\ polling.pc = "polling"
    /\ polling_hist' = Append(polling_hist, PollAttempt("ok"))
    /\ polling' = [polling EXCEPT !.pc = "done", !.outcome = "returned"]
    /\ UNCHANGED <<queue, unfinished, enq, buffer, appended, puts, console, now>>
    /\ pollingFrame

\* TelegramUnauthorizedError: logger.critical, print, break
PollUnauthorized ==
    /\ polling.pc = "polling"
    /\ polling_hist' = Append(polling_hist, PollAttempt("unauthorized"))
    /\ polling' = [polling EXCEPT !.pc = "done", !.outcome = "returned",
                                  !.printed = TRUE]
    /\ SetLogState(LogCall(LogState, formatter, PollUnauthorizedRecord, now))
    /\ UNCHANGED now
    /\ pollingFrame

\* TelegramRetryAfter with retry_after = d: logger.warning, sleep
PollFlood(d) ==
    /\ polling.pc = "polling"
    /\ polling.starts < MaxPolls
    /\ polling_hist' = Append(polling_hist,
                              [PollAttempt("flood") EXCEPT !.retry_after = d])
    /\ polling' = [polling EXCEPT !.pc = "sleep", !.wait = PollFloodWait(d)]
    /\ SetLogState(LogCall(LogState, formatter, PollFloodRecord(PollFloodWait(d)), now))
    /\ UNCHANGED now
    /\ pollingFrame

\* TelegramNetworkError: logger.error, sleep(5)
PollNetwork ==
    /\ polling.pc = "polling"
    /\ polling.starts < MaxPolls
    /\ polling_hist' = Append(polling_hist, PollAttempt("network"))
    /\ polling' = [polling EXCEPT !.pc = "sleep", !.wait = 10 * POLL_NETWORK_SLEEP]
    /\ SetLogState(LogCall(LogState, formatter, PollNetworkRecord, now))
    /\ UNCHANGED now
    /\ pollingFrame

\* any other Exception: logger.error, sleep(3)
PollOther ==
    /\ polling.pc = "polling"
    /\ polling.starts < MaxPolls
    /\ polling_hist' = Append(polling_hist, PollAttempt("other"))
    /\ polling' = [polling EXCEPT !.pc = "sleep", !.wait = 10 * POLL_OTHER_SLEEP]
    /\ SetLogState(LogCall(LogState, formatter, PollOtherRecord, now))
    /\ UNCHANGED now
    /\ pollingFrame

\* the sleep is over: the loop condition, then dp.start_polling again
PollWake ==
    /\ polling.pc = "sleep"
    /\ now' = now + polling.wait
    /\ IF PollAgain(polling.starts)
       THEN polling' = [polling EXCEPT !.pc = "polling", !.starts = @ + 1, !.wait = 0]
       ELSE polling' = [polling EXCEPT !.pc = "done", !.wait = 0,
                                       !.outcome = "returned"]
    /\ UNCHANGED <<queue, unfinished, enq, buffer, appended, puts, console,
                   polling_hist>>
    /\ pollingFrame

NextPolling ==
    \/ SafePollingCall
    \/ PollReturns
    \/ PollUnauthorized
    \/ \E d \in PollRetryAfters : PollFlood(d)
    \/ PollNetwork
    \/ PollOther
    \/ PollWake

SpecPolling == Init /\ [][NextPolling]_vars

(***************************************************************************)
(* format_schedule: the lessons of a week as MarkdownV2 messages.  A text  *)
(* is a sequence with one element per character; a character outside      *)
(* ASCII, and the backtick, is written as its transliteration or its code  *)
(* point.  A field                                                         *)
(* that is None and a field that is the empty string are both falsy and    *)
(* are the empty sequence; a lesson_number or weekday that is None is      *)
(* NoNumber.                                                               *)
(***************************************************************************)
NoNumber == 0 - 1

weekday_names ==
    <<<<"P", "o", "n", "e", "d", "e", "l", "'", "n", "i", "k">>,
      <<"V", "t", "o", "r", "n", "i", "k">>,
      <<"S", "r", "e", "d", "a">>,
      <<"Ch", "e", "t", "v", "e", "r", "g">>,
      <<"P", "ya", "t", "n", "i", "ts", "a">>,
      <<"S", "u", "b", "b", "o", "t", "a">>,
      <<"V", "o", "s", "k", "r", "e", "s", "e", "n", "'", "e">>>>

lesson_num_emoji ==
    <<<<"1", "U+FE0F", "U+20E3">>,
      <<"2", "U+FE0F", "U+20E3">>,
      <<"3", "U+FE0F", "U+20E3">>,
      <<"4", "U+FE0F", "U+20E3">>,
      <<"5", "U+FE0F", "U+20E3">>,
      <<"6", "U+FE0F", "U+20E3">>,
      <<"7", "U+FE0F", "U+20E3">>>>

lessonTimeData ==
    <<[start |-> <<"0", "8", ":", "3", "0">>, end |-> <<"1", "0", ":", "0", "5">>],
      [start |-> <<"1", "0", ":", "1", "5">>, end |-> <<"1", "1", ":", "5", "0">>],
      [start |-> <<"1", "2", ":", "1", "0">>, end |-> <<"1", "3", ":", "4", "5">>],
      [start |-> <<"1", "4", ":", "0", "0">>, end |-> <<"1", "5", ":", "3", "5">>],
      [start |-> <<"1", "5", ":", "5", "5">>, end |-> <<"1", "7", ":", "3", "0">>],
      [start |-> <<"1", "7", ":", "4", "5">>, end |-> <<"1", "9", ":", "2", "0">>],
      [start |-> <<"1", "9", ":", "3", "0">>, end |-> <<"2", "1", ":", "0", "0">>]>>

UnknownTime == <<"U+2753", "U+2753", ":", "U+2753", "U+2753">>

UnknownNumber == <<"U+2753">>

DefaultHeaderPrefix == <<"U+1F4C5", " ", "R", "a", "s", "p", "i", "s", "a", "n", "i", "e">>

NoRooms == <<"M", "e", "s", "t", "o", " ", "p", "r", "o", "v", "e", "d", "e", "n", "i", "ya", " ", "n", "e", " ", "u", "k", "a", "z", "a", "n", "o">>

LinkOpen == <<"[", "n", "a", "zh", "m", "i", "t", "e", " ", "d", "l", "ya", " ", "p", "o", "d", "k", "l", "yu", "ch", "e", "n", "i", "ya", "]", "(">>

NoProfessors == <<"P", "r", "e", "p", "o", "d", "a", "v", "a", "t", "e", "l", "'", " ", "n", "e", " ", "u", "k", "a", "z", "a", "n">>

NoSubject == <<"P", "r", "e", "d", "m", "e", "t", " ", "n", "e", " ", "u", "k", "a", "z", "a", "n">>

PlusHeader == <<"\n", "N", "e", "d", "e", "l", "ya", " ", "U+2795", "\n", "\n">>

MinusHeader == <<"\n", "N", "e", "d", "e", "l", "ya", " ", "U+2796", "\n", "\n">>

FullHeader == <<"\n", "P", "o", "l", "n", "o", "e", " ", "r", "a", "s", "p", "i", "s", "a", "n", "i", "e", ":", "\n", "\n">>

TimePrefix == <<"U+23F3", " ">>

TimeDash == <<" ", "\\", "-", " ">>

ProfessorsPrefix == <<"\n", " ", " ", "U+1F468", "U+200D", "U+1F3EB", " ">>

RoomPrefix == <<"\n", " ", " ", "U+1F4CD">>

DayPrefix == <<"U+1F5D3", " ", "*">>

DaySuffix == <<"*", ":", "\n">>

marker_plus == <<"U+2795">>

marker_minus == <<"U+2796">>

marker_every == <<"U+26AA">>

\* the elements of s joined, sep between two neighbours
RECURSIVE Join(_, _)
Join(s, sep) ==
    IF s = <<>> THEN <<>>
    ELSE IF Len(s) = 1 THEN s[1]
    ELSE s[1] \o sep \o Join(Tail(s), sep)

RECURSIVE Concat(_)
Concat(s) == IF s = <<>> THEN <<>> ELSE s[1] \o Concat(Tail(s))

get_lesson_time(lesson_number) ==
    IF lesson_number \in 0..6
    THEN lessonTimeData[lesson_number + 1]
    ELSE [start |-> UnknownTime, end |-> UnknownTime]

escape_chars ==
    {"_", "*", "[", "]", "(", ")", "~", "U+0060", ">", "#", "+", "-", "=", "|", "{", "}",
     ".", "!", "\\"}

\* every character of escape_chars gets a backslash before it; the text is
\* halved to keep the recursion shallow
RECURSIVE escape_md_v2(_)
escape_md_v2(text) ==
    IF Len(text) = 0 THEN <<>>
    ELSE IF Len(text) = 1
         THEN IF text[1] \in escape_chars THEN <<"\\", text[1]>> ELSE text
    ELSE LET h == Len(text) \div 2
         IN escape_md_v2(SubSeq(text, 1, h))
            \o escape_md_v2(SubSeq(text, h + 1, Len(text)))

\* \S of the pattern
NotSpace(c) == c \notin {" ", "\n", "\t", "\r"}

\* the length of http:// or https:// at position i of text, 0 if neither
UrlScheme(text, i) ==
    IF SubSeq(text, i, Min(i + 6, Len(text))) = <<"h", "t", "t", "p", ":", "/", "/">>
    THEN 7
    ELSE IF SubSeq(text, i, Min(i + 7, Len(text)))
               = <<"h", "t", "t", "p", "s", ":", "/", "/">>
         THEN 8
         ELSE 0

\* url_pattern matches at position i
UrlAt(text, i) ==
    /\ UrlScheme(text, i) > 0
    /\ i + UrlScheme(text, i) <= Len(text)
    /\ NotSpace(text[i + UrlScheme(text, i)])

\* the last position of the match that starts at i: \S+ is greedy
UrlEnd(text, i) ==
    CHOOSE e \in (i + UrlScheme(text, i))..Len(text) :
        /\ \A j \in (i + UrlScheme(text, i))..e : NotSpace(text[j])
        /\ e = Len(text) \/ ~NotSpace(text[e + 1])

\* url_pattern.findall(rooms_text) is not empty
HasUrl(text) == \E i \in DOMAIN text : UrlAt(text, i)

\* url_pattern.sub: every match, from the left, becomes a link
RECURSIVE UrlSub(_, _)
UrlSub(text, i) ==
    IF i > Len(text) THEN <<>>
    ELSE IF UrlAt(text, i)
         THEN LinkOpen \o SubSeq(text, i, UrlEnd(text, i)) \o <<")">>
              \o UrlSub(text, UrlEnd(text, i) + 1)
         ELSE <<text[i]>> \o UrlSub(text, i + 1)

week_marker(week_mark) ==
    CASE week_mark = "plus"  -> marker_plus
      [] week_mark = "minus" -> marker_minus
      [] OTHER               -> marker_every

format_lesson(l) ==
    LET time == get_lesson_time(l.lesson_number)
        time_str == TimePrefix \o time.start \o TimeDash \o time.end
        lesson_num == IF l.lesson_number \in 0..6
                      THEN lesson_num_emoji[l.lesson_number + 1]
                      ELSE UnknownNumber
        rooms == IF l.rooms = <<>> THEN NoRooms ELSE l.rooms
        rooms_text == IF HasUrl(rooms) THEN UrlSub(rooms, 1) ELSE escape_md_v2(rooms)
        professors == IF l.professors.list
                      THEN Join(l.professors.items, <<",", " ">>)
                      ELSE IF l.professors.text = <<>> THEN NoProfessors
                           ELSE l.professors.text
        subject == escape_md_v2(IF l.subject = <<>> THEN NoSubject ELSE l.subject)
    IN <<" ", " ">> \o week_marker(l.week_mark) \o <<" ">> \o lesson_num \o <<" ">>
       \o subject \o ProfessorsPrefix \o escape_md_v2(professors)
       \o RoomPrefix \o rooms_text \o <<"\n", " ", " ">> \o time_str

\* the lessons the week filter lets through
filtered_lessons(lessons, week) ==
    CASE week = "plus"  ->
            SelectSeq(lessons, LAMBDA l : l.week_mark \in {"plus", "every", "None"})
      [] week = "minus" ->
            SelectSeq(lessons, LAMBDA l : l.week_mark \in {"minus", "every", "None"})
      [] OTHER          -> lessons

\* lessons_by_day[wd], in the order the lessons came
lessons_by_day(filtered, wd) == SelectSeq(filtered, LAMBDA l : l.weekday = wd)

\* lessons_by_day.keys(): the weekdays in the order of their first lesson
RECURSIVE day_keys(_)
day_keys(filtered) ==
    IF filtered = <<>> THEN <<>>
    ELSE LET before == day_keys(SubSeq(filtered, 1, Len(filtered) - 1))
             wd == filtered[Len(filtered)].weekday
         IN IF wd = NoNumber \/ \E i \in DOMAIN before : before[i] = wd
            THEN before
            ELSE Append(before, wd)

\* sorted(keys): ascending
RECURSIVE sorted(_)
sorted(keys) ==
    IF keys = <<>> THEN <<>>
    ELSE LET rest == sorted(SubSeq(keys, 1, Len(keys) - 1))
             x == keys[Len(keys)]
         IN SelectSeq(rest, LAMBDA k : k <= x) \o <<x>>
            \o SelectSeq(rest, LAMBDA k : k > x)

\* x.lesson_number or 0
lesson_key(l) == IF l.lesson_number = NoNumber THEN 0 ELSE l.lesson_number

\* sorted(day, key = lesson_key): stable
RECURSIVE sorted_lessons(_)
sorted_lessons(day) ==
    IF day = <<>> THEN <<>>
    ELSE LET rest == sorted_lessons(SubSeq(day, 1, Len(day) - 1))
             x == day[Len(day)]
         IN SelectSeq(rest, LAMBDA l : lesson_key(l) <= lesson_key(x)) \o <<x>>
            \o SelectSeq(rest, LAMBDA l : lesson_key(l) > lesson_key(x))

schedule_header(week, header_prefix) ==
    <<"*">> \o escape_md_v2(header_prefix) \o <<"*">>
    \o CASE week = "plus"  -> PlusHeader
         [] week = "minus" -> MinusHeader
         [] week = "full"  -> FullHeader
         [] OTHER          -> <<"\n", "\n">>

day_block(filtered, wd) ==
    LET day_lessons == sorted_lessons(lessons_by_day(filtered, wd))
    IN DayPrefix \o escape_md_v2(weekday_names[wd]) \o DaySuffix
       \o Join([i \in DOMAIN day_lessons |-> format_lesson(day_lessons[i])],
               <<"\n", "\n">>)
       \o <<"\n", "\n", "\n">>

day_texts(filtered) ==
    LET keys == sorted(day_keys(filtered))
    IN [i \in DOMAIN keys |-> day_block(filtered, keys[i])]

\* a loop that closes a message only when it is already over the limit
RECURSIVE pack_late(_, _, _)
pack_late(messages, current_text, days) ==
    IF days = <<>>
    THEN IF current_text # <<>> THEN Append(messages, current_text) ELSE messages
    ELSE IF Len(current_text) > SCHEDULE_MAX_MESSAGE_LENGTH
         THEN pack_late(Append(messages, current_text), days[1], Tail(days))
         ELSE pack_late(messages, current_text \o days[1], Tail(days))

\* the loop over day_texts and the last append
RECURSIVE pack(_, _, _)
pack(messages, current_text, days) ==
    IF days = <<>>
    THEN IF current_text # <<>> THEN Append(messages, current_text) ELSE messages
    ELSE IF Len(current_text) + Len(days[1]) > SCHEDULE_MAX_MESSAGE_LENGTH
         THEN pack(Append(messages, current_text), days[1], Tail(days))
         ELSE pack(messages, current_text \o days[1], Tail(days))

format_schedule(lessons, week, header_prefix) ==
    LET filtered == filtered_lessons(lessons, week)
    IN IF filtered = <<>> THEN <<>>
       ELSE pack(<<>>, schedule_header(week, header_prefix), day_texts(filtered))

\* the inputs of format_schedule
HalfSubject == Text(HalfLength)
FullSubject == Text(FullLength)

ScheduleLessons ==
    {[weekday |-> 2, lesson_number |-> 1, week_mark |-> "plus",
      subject |-> HalfSubject,
      professors |-> [list |-> TRUE,
                      items |-> <<<<"I", "v", "a", "n", "o", "v", " ", "I", ".">>,
                                  <<"P", "e", "t", "r", "o", "v">>>>,
                      text |-> <<>>],
      rooms |-> <<"1", "0", "1">>],
     [weekday |-> 1, lesson_number |-> 0, week_mark |-> "every",
      subject |-> HalfSubject,
      professors |-> [list |-> FALSE, items |-> <<>>, text |-> <<>>],
      rooms |-> <<"s", "m", ".", " ", "h", "t", "t", "p", "s", ":", "/", "/", "x",
                  ".", "y", " ", "2", "-", "1">>],
     [weekday |-> 2, lesson_number |-> NoNumber, week_mark |-> "minus",
      subject |-> <<>>,
      professors |-> [list |-> FALSE, items |-> <<>>,
                      text |-> <<"S", "i", "d", "o", "r", "o", "v", "_", "A">>],
      rooms |-> <<>>],
     [weekday |-> 1, lesson_number |-> 7, week_mark |-> "None",
      subject |-> FullSubject,
      professors |-> [list |-> TRUE, items |-> <<>>, text |-> <<>>],
      rooms |-> <<"2", "-", "1">>],
     [weekday |-> NoNumber, lesson_number |-> 2, week_mark |-> "every",
      subject |-> <<"M", ".">>,
      professors |-> [list |-> FALSE, items |-> <<>>, text |-> <<>>],
      rooms |-> <<>>]}

ScheduleWeeks == {"plus", "minus", "full", "other"}

ScheduleLists == UNION {[1..n -> ScheduleLessons] : n \in 0..MaxLessons}

\* a call of format_schedule about to be made, with its arguments
InitSchedule ==
    /\ formatter = "log_format"
    /\ InitCommon
    /\ \E lessons \in ScheduleLists, week \in ScheduleWeeks :
          schedule = [pc |-> "call", lessons |-> lessons, week |-> week,
                      header_prefix |-> DefaultHeaderPrefix, result |-> <<>>]

FormatSchedule ==
    /\ schedule.pc = "call"
    /\ schedule' = [schedule EXCEPT
                       !.pc = "returned",
                       !.result = format_schedule(schedule.lessons, schedule.week,
                                                  schedule.header_prefix)]
    /\ UNCHANGED <<notifyVars, pollingVars, building, formatter, queue, unfinished,
                   worker_task, workerVars, buffer, console, now, attempts, enq,
                   logs, start_calls, failures, last, appended, puts>>

NextSchedule == FormatSchedule

SpecSchedule == InitSchedule /\ [][NextSchedule]_vars

(***************************************************************************)
(* Specifications                                                          *)
(***************************************************************************)
\* the program as setup_logging configures it
Next ==
    \/ \E record \in AppRecords : Log(record)
    \/ StartWorker
    \/ \E w \in Tasks : Worker(w)

Spec == Init /\ [][Next]_vars

\* the records that put an item on the queue, logged while the worker runs
NextFair ==
    \/ \E record \in {r \in AppRecords : r.levelno >= HandlerLevel /\ ~r.bad} :
          Log(record)
    \/ \E w \in Tasks : Worker(w)

\* the worker is scheduled again whenever it can run and sends return
SpecFair == Init /\ [][NextFair]_vars /\ WF_vars(\E w \in Tasks : Worker(w))

\* records of every level logged through the root logger, worker at rest
NextLog == \E record \in LogRecords : Log(record)

SpecLog == Init /\ [][NextLog]_vars

\* calls of send_chat_info_log, worker at rest
NextNotify == Notify

SpecNotify == Init /\ [][NextNotify]_vars

\* records logged through the root logger and records handed to emit, while
\* the worker runs
NextPayload ==
    \/ \E record \in {r \in AppRecords : ~r.bad /\ r.levelno < HandlerLevel} :
          Log(record)
    \/ \E record \in {r \in EmitRecords : ~r.bad /\ Len(r.msg) = 1
                                         /\ r.levelno \in {INFO, WARNING}} :
          Emit(record)
    \/ \E w \in Tasks :
          WorkerGet(w) \/ SendOk(w) \/ SendFail(w) \/ WakeRetry(w) \/ RateDone(w)

SpecPayload == InitPayload /\ [][NextPayload]_vars

\* records logged through the root logger and records handed to emit alone,
\* worker at rest
NextFeed ==
    \/ \E record \in LogRecords : Log(record)
    \/ \E record \in {r \in EmitRecords : Len(r.msg) = 1} : Emit(record)

SpecFeed == Init /\ [][NextFeed]_vars

\* the handler with a worker task that may end at any of its awaits
NextCancel ==
    \/ \E record \in {r \in AppRecords : r.levelno >= HandlerLevel /\ ~r.bad} :
          Log(record)
    \/ StartWorker
    \/ \E w \in Tasks : Worker(w)
    \/ \E w \in Tasks : Terminate(w)

SpecCancel == Init /\ [][NextCancel]_vars

\* one thread inside emit while another thread logs INFO records through the
\* root logger
NextRace ==
    \/ \E record \in EmitRecords : EmitRead(record)
    \/ EmitWrite
    \/ \E record \in {r \in AppRecords : r.levelno < HandlerLevel /\ ~r.bad} :
          Log(record)

SpecRace == InitPayload /\ [][NextRace]_vars

\* emit called directly with records of every kind, worker at rest
NextEmit == \E record \in EmitRecords : Emit(record)

SpecEmit == InitEmit /\ [][NextEmit]_vars

(***************************************************************************)
(* History read by the properties                                          *)
(***************************************************************************)
\* the transport calls made for item id, as positions of attempts
AttemptsOf(id) == {i \in DOMAIN attempts : attempts[i].id = id}
OkOf(id) == {i \in AttemptsOf(id) : attempts[i].result = "ok"}

\* a worker has taken item id and is through with its send loop
Finished(id) ==
    /\ id \in 1..enq
    /\ \A i \in DOMAIN queue : queue[i].id # id
    /\ \A w \in Tasks : item[w].id = id => pc[w] \in {"rate"}

Delivered(id) == OkOf(id) # {}
Abandoned(id) == Finished(id) /\ ~Delivered(id)

ActiveTasks == {w \in Tasks : pc[w] # "none"}

(***************************************************************************)
(* C1: the transport sees the items in enqueue order; all attempts of an    *)
(* item come before the first attempt of any item enqueued after it, and   *)
(* no item is passed over.                                                 *)
(***************************************************************************)
C1_EnqueueOrder ==
    /\ attempts # <<>> => attempts[1].id = 1
    /\ \A i \in DOMAIN attempts : i > 1 =>
          attempts[i].id \in {attempts[i - 1].id, attempts[i - 1].id + 1}

\* two items were attempted, the first of them more than once
C1_Witness ==
    \E i, j \in DOMAIN attempts :
        /\ i + 1 < j
        /\ attempts[i].id = attempts[i + 1].id
        /\ attempts[i].id < attempts[j].id

(***************************************************************************)
(* C2: no item gets more than MAX_RETRIES transport calls; an item whose   *)
(* calls all failed is given up after exactly MAX_RETRIES calls, and the   *)
(* worker then goes on to the next item.                                   *)
(***************************************************************************)
C2_RetryBound ==
    \A id \in 1..enq :
        /\ Cardinality(AttemptsOf(id)) <= MAX_RETRIES
        /\ Abandoned(id) => Cardinality(AttemptsOf(id)) = MAX_RETRIES
        /\ \A w \in Tasks :
              (item[w].id = id /\ pc[w] \in {"send", "sleep"} /\ ~Delivered(id))
                  => retries[w] < MAX_RETRIES

\* an item was given up after MAX_RETRIES failed calls and the next one tried
C2_Witness ==
    \E id \in 1..enq :
        /\ Abandoned(id)
        /\ Cardinality(AttemptsOf(id)) = MAX_RETRIES
        /\ AttemptsOf(id + 1) # {}

(***************************************************************************)
(* C8: however often _start_worker is called, at most one delivery loop    *)
(* is active.                                                              *)
(***************************************************************************)
C8_OneLoop == Cardinality(ActiveTasks) <= 1

\* _start_worker was called again after the constructor's call
C8_Witness == start_calls >= 2 /\ Cardinality(ActiveTasks) = 1

(***************************************************************************)
(* C9: a successful transport call for an item is the last call for that   *)
(* item, so no item is sent twice; when no call fails, every item the      *)
(* worker is through with was sent by exactly one call.                    *)
(***************************************************************************)
C9_SentOnce ==
    \A id \in 1..enq :
        /\ Cardinality(OkOf(id)) <= 1
        /\ \A i \in OkOf(id) : \A j \in AttemptsOf(id) : j <= i
        /\ (failures = 0 /\ Finished(id)) => Cardinality(AttemptsOf(id)) = 1

\* two items were delivered, _start_worker having been called again
C9_Witness ==
    /\ start_calls >= 2
    /\ failures = 0
    /\ \E a, b \in 1..enq : a # b /\ Finished(a) /\ Finished(b)
                            /\ Delivered(a) /\ Delivered(b)

(***************************************************************************)
(* What one call put on the queue, read from the step that made the call   *)
(***************************************************************************)
\* the step is a call of Log or Emit
IsCall == logs' = logs + 1
CallRecord == last'.record

\* the items the step appended to the queue
Appended == SubSeq(queue', Len(queue) + 1, Len(queue'))
AppendsOnly == Len(queue') >= Len(queue) /\ SubSeq(queue', 1, Len(queue)) = queue

StartsWith(s, p) == Len(s) >= Len(p) /\ SubSeq(s, 1, Len(p)) = p
EndsWith(s, p) == Len(s) >= Len(p) /\ SubSeq(s, Len(s) - Len(p) + 1, Len(s)) = p

\* the call put exactly one file on the queue: header with the buffer's
\* entry count first, the record's formatted text last
OneFilePut ==
    /\ AppendsOnly
    /\ Len(Appended) = 1
    /\ Kind(Appended[1]) = "file"
    /\ StartsWith(Appended[1].file, FileHeader(Len(buffer')))
    /\ EndsWith(Appended[1].file, Format(formatter, CallRecord))

(***************************************************************************)
(* C3: under fair scheduling of the worker every item put on the queue is  *)
(* in the end delivered by a successful transport call or given up with    *)
(* the drop recorded in the local log.                                     *)
(***************************************************************************)
\* the most items ever put: one for each record logged and one for each drop,
\* and a drop takes MAX_RETRIES failed calls
IdBound == MaxLogs + (MaxFailures \div MAX_RETRIES)
DropTraces == Cardinality({i \in DOMAIN console : console[i].msg = DropRecord.msg})
AbandonedIds == {id \in 1..enq : Abandoned(id)}
Settled(id) ==
    \/ Delivered(id)
    \/ Abandoned(id) /\ DropTraces = Cardinality(AbandonedIds)

C3_EventuallySettled ==
    \A id \in 1..IdBound : (enq >= id) ~> Settled(id)

\* one item was delivered and another given up with its trace
C3_Witness ==
    \E a, b \in 1..enq :
        /\ Delivered(a) /\ Finished(a)
        /\ Abandoned(b) /\ Settled(b)

CeilDiv(a, b) == (a + b - 1) \div b

\* the text of chunk idx of total without its marker
StripMarker(text, idx, total) ==
    IF total > 1 THEN SubSeq(text, Len(Marker(idx, total)) + 1, Len(text)) ELSE text

RECURSIVE ConcatStripped(_, _)
ConcatStripped(items, idx) ==
    IF idx > Len(items) THEN <<>>
    ELSE StripMarker(items[idx].text, idx, Len(items)) \o ConcatStripped(items, idx + 1)

ChunksPut(text) ==
    LET n == Len(Appended) IN
    /\ AppendsOnly
    /\ n = CeilDiv(Len(text), MAX_MESSAGE_LENGTH)
    /\ \A i \in 1..n :
          /\ Kind(Appended[i]) = "str"
          /\ n > 1 => StartsWith(Appended[i].text, Marker(i, n))
    /\ ConcatStripped(Appended, 1) = text
    /\ Len(text) = 0 => n = 0
    /\ (0 < Len(text) /\ Len(text) <= MAX_MESSAGE_LENGTH)
          => (n = 1 /\ Appended[1].text = text)

C5_ChunksRoundTrip ==
    [][(IsCall /\ CallRecord.levelno < WARNING /\ ~FormatRaises(CallRecord))
          => ChunksPut(Format(formatter, CallRecord))]_vars

\* a text of more than two chunks' length was split and put on the queue
C5_Witness ==
    /\ last.op = "emit"
    /\ last.record.levelno < WARNING
    /\ ~last.record.bad
    /\ Len(Format(formatter, last.record)) > 2 * MAX_MESSAGE_LENGTH
    /\ enq >= last.enq + 3

(***************************************************************************)
(* C6: every string on the queue has at most MAX_MESSAGE_LENGTH            *)
(* characters, the [i/total] marker included.                              *)
(***************************************************************************)
C6_ChunkLength ==
    \A i \in DOMAIN queue :
        Kind(queue[i]) = "str" => Len(queue[i].text) <= MAX_MESSAGE_LENGTH

(***************************************************************************)
(* C7: emit never raises to its caller; when formatting fails the failure  *)
(* goes to handleError, nothing is put on the queue and emit is not        *)
(* entered again.                                                          *)
(***************************************************************************)
HandleErrorEntry(record) == [levelno |-> record.levelno, msg |-> <<"handleError">>]

C7_EmitNeverRaises ==
    [][IsCall =>
          /\ ~last'.raised
          /\ (FormatRaises(CallRecord) /\ CallRecord.levelno >= HandlerLevel) =>
                /\ queue' = queue
                /\ enq' = enq
                /\ Len(console') > Len(console)
                /\ console'[Len(console')] = HandleErrorEntry(CallRecord)]_vars

\* a record whose formatting fails went through emit
C7_Witness ==
    /\ last.op = "log"
    /\ last.record.bad
    /\ last.record.levelno >= HandlerLevel
    /\ ~last.raised
    /\ console # <<>>
    /\ console[Len(console)] = HandleErrorEntry(last.record)

(***************************************************************************)
(* C10: a logging call can be made in every state of the worker, completes *)
(* without a step of the worker and leaves its item on the queue, however  *)
(* many items the queue holds.                                             *)
(***************************************************************************)
C10_ProducersNeverBlock ==
    /\ [](\A record \in AppRecords : logs < MaxLogs => ENABLED Log(record))
    /\ [][(IsCall /\ CallRecord.levelno >= HandlerLevel /\ ~FormatRaises(CallRecord))
             => /\ AppendsOnly
                /\ Len(Appended) = 1
                /\ UNCHANGED workerVars]_vars

\* a record was put on a non-empty queue while the worker slept before a retry
C10_Witness ==
    /\ last.op = "log"
    /\ last.at[1] = "sleep"
    /\ queue # <<>>
    /\ queue[Len(queue)].id = last.enq + 1

(***************************************************************************)
(* C11: giving an item up adds no item to the queue.                       *)
(***************************************************************************)
\* the step ends the send loop of an item that was not sent
IsDrop == \E w \in Tasks : pc[w] = "sleep" /\ pc'[w] = "rate" /\ ~sent[w]

C11_DropAddsNothing ==
    [][IsDrop => (enq' = enq /\ queue' = queue)]_vars

(***************************************************************************)
(* C12: the buffer holds the last min(k, N) of the k lines appended so     *)
(* far, in the order they were appended, and never more than N lines.      *)
(***************************************************************************)
C12_LastLines ==
    LET k == Len(appended)
        m == IF k < Capacity THEN k ELSE Capacity
    IN /\ Len(buffer) = m
       /\ Len(buffer) <= Capacity
       /\ buffer = SubSeq(appended, k - m + 1, k)

\* more lines were appended than the buffer holds, the oldest two are gone
C12_Witness ==
    /\ Len(appended) >= Capacity + 2
    /\ buffer = SubSeq(appended, Len(appended) - Capacity + 1, Len(appended))
    /\ buffer[1] # appended[1]

(***************************************************************************)
(* C13: a call of send_chat_info_log makes at most max_retries transport   *)
(* calls, none after one that succeeded, and when max_retries calls failed *)
(* it ends with one error trace more on the console.                       *)
(***************************************************************************)
NotifyAttemptsOf(c) == {i \in DOMAIN notify_hist : notify_hist[i].call = c}

\* the step ends a call of send_chat_info_log
NotifyReturns == notify'.pc = "idle" /\ notify'.calls > 0 /\ notify' # notify

GiveUpTraces(con, m) ==
    Cardinality({i \in DOMAIN con :
        con[i] = [levelno |-> ERROR,
                  msg |-> <<"Ne udalos otpravit info log posle ">> \o Digits(m)
                          \o <<" popytok">>]})

C13_NotifyBound ==
    /\ [](\A i \in DOMAIN notify_hist :
            /\ Cardinality(NotifyAttemptsOf(notify_hist[i].call)) <= notify_hist[i].m
            /\ \A j \in DOMAIN notify_hist :
                  (i < j /\ notify_hist[j].call = notify_hist[i].call) =>
                      notify_hist[i].result # "ok")
    /\ [][(NotifyReturns /\ ~notify'.sent
           /\ Cardinality({i \in DOMAIN notify_hist' :
                             notify_hist'[i].call = notify'.calls})
                 = notify'.max_retries) =>
             GiveUpTraces(console', notify'.max_retries)
                 = GiveUpTraces(console, notify'.max_retries) + 1]_vars

\* a call with max_retries = 3 ended after three failed transport calls, and
\* another call ended with its first transport call
C13_Witness ==
    /\ notify.pc = "idle"
    /\ \E c \in 1..notify.calls :
          /\ Cardinality(NotifyAttemptsOf(c)) = MAX_RETRIES
          /\ \A i \in NotifyAttemptsOf(c) : notify_hist[i].result \in {"flood", "error"}
    /\ \E i \in DOMAIN notify_hist :
          notify_hist[i].result = "ok" /\ notify_hist[i].n = 0 /\ notify_hist[i].m > 1
    /\ GiveUpTraces(console, MAX_RETRIES) >= 1

(***************************************************************************)
(* C14: a step of send_chat_info_log leaves the ring buffer and the queue  *)
(* as they were.                                                           *)
(***************************************************************************)
C14_NotifyFrame ==
    [][notify' # notify => (buffer' = buffer /\ queue' = queue)]_vars

(***************************************************************************)
(* C16: no call of send_chat_info_log ends with an exception: whatever the *)
(* transport call did, the call returns.                                   *)
(***************************************************************************)
C16_NotifyNeverRaises ==
    /\ notify.outcome # "raised"
    /\ (notify.pc = "idle" /\ notify.calls > 0) => notify.outcome = "returned"
    /\ notify.pc # "idle" => notify.outcome = "none"

\* a call returned after flood control, another failure and a migration
C16_Witness ==
    /\ notify.pc = "idle"
    /\ notify.outcome = "returned"
    /\ \E i, j, k \in NotifyAttemptsOf(notify.calls) :
          /\ notify_hist[i].result = "flood"
          /\ notify_hist[j].result = "error"
          /\ notify_hist[k].result = "migrate"

(***************************************************************************)
(* C15: through the root logger of setup_logging a record below WARNING    *)
(* puts nothing on the queue: a record below INFO is dropped by the root   *)
(* logger, a record from INFO up goes to the console and to the ring       *)
(* buffer.  A record of level WARNING or above goes through the Telegram   *)
(* handler's emit exactly once: one file put, or, if its formatting fails, *)
(* one handleError in each of the three handlers.                          *)
(***************************************************************************)
NewConsole == SubSeq(console', Len(console) + 1, Len(console'))

SameItemNext(i) == i < Len(attempts) /\ attempts[i + 1].id = attempts[i].id

C17_FloodWait ==
    \A i \in DOMAIN attempts :
        (attempts[i].result = "flood" /\ SameItemNext(i)) =>
            /\ attempts[i + 1].time - attempts[i].time
                  = 10 * (attempts[i].retry_after + 2)
            /\ (attempts[i].n = 0 /\ attempts[i + 1].result = "ok") =>
                  Cardinality(AttemptsOf(attempts[i].id)) = 2

\* flood control with wait 10 on the first call, success on the second
C17_Witness ==
    \E i \in DOMAIN attempts :
        /\ attempts[i].result = "flood"
        /\ attempts[i].retry_after = 10
        /\ attempts[i].n = 0
        /\ SameItemNext(i)
        /\ attempts[i + 1].result = "ok"
        /\ attempts[i + 1].time - attempts[i].time >= 120
        /\ Finished(attempts[i].id)

(***************************************************************************)
(* C18: the sleep after the n-th failed call of an item (no flood control) *)
(* is min(21 * n, 60) seconds.                                             *)
(***************************************************************************)
C18_BackoffByAttempt ==
    \A i \in DOMAIN attempts :
        attempts[i].result = "error" =>
            attempts[i].wait = 10 * Min(TIME_SLEEP * (attempts[i].n + 1), BACKOFF_CAP)

(***************************************************************************)
(* C19: the sleep after an ordinary failure is decided by the number of    *)
(* the item's earlier failed calls, flood-control failures included, and   *)
(* grows with it; every failure of either kind uses up one of the          *)
(* MAX_RETRIES calls.                                                      *)
(***************************************************************************)
EarlierOf(i) == {k \in AttemptsOf(attempts[i].id) : k < i}
FailedBefore(i) == Cardinality(EarlierOf(i))
OrdinaryBefore(i) == Cardinality({k \in EarlierOf(i) : attempts[k].result = "error"})
Errors == {i \in DOMAIN attempts : attempts[i].result = "error"}

C20_RateLimit ==
    \A i \in DOMAIN attempts :
        (i < Len(attempts) /\ attempts[i + 1].id # attempts[i].id) =>
            attempts[i + 1].time - attempts[i].time >= RATE_LIMIT

\* the next item was tried after a delivered item and after an abandoned one
C20_Witness ==
    \E i, j \in DOMAIN attempts :
        /\ i < Len(attempts) /\ attempts[i + 1].id # attempts[i].id
        /\ attempts[i].result = "ok"
        /\ j < Len(attempts) /\ attempts[j + 1].id # attempts[j].id
        /\ attempts[j].result # "ok"

(***************************************************************************)
(* C21: task_done is called once for every item taken from the queue,      *)
(* delivered or abandoned, and after the item's last transport call: the   *)
(* queue's count of unfinished items is the number of items put minus the  *)
(* number of items the worker is through with, and it is zero exactly when *)
(* every item put was delivered or abandoned and marked.                   *)
(***************************************************************************)
\* item id left the queue and no worker holds it any more
Processed(id) ==
    /\ id \in 1..enq
    /\ \A i \in DOMAIN queue : queue[i].id # id
    /\ \A w \in Tasks : item[w].id # id

ProcessedIds == {id \in 1..enq : Processed(id)}

C21_TaskDoneOnce ==
    /\ [](/\ unfinished = enq - Cardinality(ProcessedIds)
          /\ \A id \in ProcessedIds : AttemptsOf(id) # {}
          /\ (unfinished = 0) <=> (\A id \in 1..enq : Processed(id)))
    /\ [][/\ unfinished' < unfinished =>
                \E w \in Tasks :
                   /\ pc[w] = "rate"
                   /\ unfinished' = unfinished - 1
                   /\ ~Processed(item[w].id)
                   /\ ProcessedIds' = ProcessedIds \cup {item[w].id}
          /\ \A id \in ProcessedIds :
                {i \in DOMAIN attempts' : attempts'[i].id = id} = AttemptsOf(id)]_vars

\* a delivered and an abandoned item are both marked and nothing is unfinished
C21_Witness ==
    /\ unfinished = 0
    /\ \E a, b \in ProcessedIds :
          /\ OkOf(a) # {}
          /\ OkOf(b) = {}
          /\ Cardinality(AttemptsOf(b)) = MAX_RETRIES

(***************************************************************************)
(* C22: the body of a file item is the header, the lines the ring buffer   *)
(* held when emit was called, oldest first, the separator and the record's *)
(* formatted text; lines appended after the put do not change the bytes    *)
(* the worker sends.                                                       *)
(***************************************************************************)
\* the step is a direct call of emit
IsEmit == IsCall /\ last'.op = "emit"

\* the last min(k, Capacity) of the lines appended so far
Snapshot ==
    LET k == Len(appended)
        m == IF k < Capacity THEN k ELSE Capacity
    IN SubSeq(appended, k - m + 1, k)

\* the body emit writes for a WARNING record over the lines given
WarningBody(lines, text) ==
    <<"=== POSLEDNIE LOGI (">> \o Digits(Len(lines)) \o <<" zapisey) ===\n">>
    \o JoinLines(lines) \o <<"\n\n=== ", "PREDUPREZHDENIE", " ===\n">> \o text

FileAttempts == {i \in DOMAIN attempts : attempts[i].call = "send_document"}

C22_SnapshotAtEmit ==
    /\ [][(IsEmit /\ CallRecord.levelno = WARNING) =>
             /\ Len(Appended) = 1
             /\ Appended[1].file = WarningBody(Snapshot, Format(formatter, CallRecord))
             /\ puts' = Append(puts, Appended[1])]_vars
    /\ [](\A i \in FileAttempts :
             attempts[i].payload.document = puts[attempts[i].id].file)

\* a file built over a full buffer that had lost its oldest line was sent
\* after more lines had been appended
C22_Witness ==
    /\ Len(appended) > Capacity + 1
    /\ \E i \in FileAttempts, r \in EmitRecords :
          /\ r.levelno = WARNING
          /\ attempts[i].result = "ok"
          /\ attempts[i].payload.document
                = WarningBody(SubSeq(appended, 2, Capacity + 1), Format(formatter, r))

(***************************************************************************)
(* C23: the file name and the caption of a file item come from the table   *)
(* of severities: "warning_", "error_" or "critical_" before the timestamp *)
(* and ".txt" after it, each with its own emoji and label; every other     *)
(* level from WARNING up takes the entry of WARNING.                       *)
(***************************************************************************)
NamedFor(it, prefix, emoji, label) ==
    /\ StartsWith(it.filename, <<prefix, "_">>)
    /\ EndsWith(it.filename, <<".txt">>)
    /\ Len(it.filename) > 3
    /\ it.caption = <<emoji, " ", label>>

C23_SeverityTable ==
    [][(IsCall /\ CallRecord.levelno >= WARNING /\ ~FormatRaises(CallRecord)) =>
          /\ Len(Appended) = 1
          /\ Kind(Appended[1]) = "file"
          /\ CASE CallRecord.levelno = ERROR ->
                    NamedFor(Appended[1], "error", "cross", "OSHIBKA")
               [] CallRecord.levelno = CRITICAL ->
                    NamedFor(Appended[1], "critical", "collision",
                             "KRITICHESKAYA OSHIBKA")
               [] OTHER ->
                    NamedFor(Appended[1], "warning", "warning-sign",
                             "PREDUPREZHDENIE")]_vars

\* a record of a level between WARNING and ERROR was named as a warning,
\* after a CRITICAL record named as critical
C23_Witness ==
    /\ last.op = "emit"
    /\ last.record.levelno = CUSTOM
    /\ Len(queue) = 2
    /\ Kind(queue[1]) = "file"
    /\ Kind(queue[2]) = "file"
    /\ queue[1].filename[1] = "critical"
    /\ queue[2].filename[1] = "warning"
    /\ queue[1].caption # queue[2].caption

(***************************************************************************)
(* C24: in send_chat_info_log the transport call that follows a            *)
(* flood-control failure with wait r comes r + 2 seconds after it, and the *)
(* call that follows any other failure comes 5 seconds after it.           *)
(***************************************************************************)
NotifySameCallNext(i) ==
    i < Len(notify_hist) /\ notify_hist[i + 1].call = notify_hist[i].call

C24_NotifySleeps ==
    /\ \A i \in DOMAIN notify_hist :
          NotifySameCallNext(i) =>
             /\ notify_hist[i].result \in {"flood", "error"}
             /\ notify_hist[i].result = "flood" =>
                   notify_hist[i + 1].time - notify_hist[i].time
                      = 10 * (notify_hist[i].retry_after + 2)
             /\ notify_hist[i].result = "error" =>
                   notify_hist[i + 1].time - notify_hist[i].time = 50
    /\ notify.pc = "sleep" =>
          LET h == notify_hist[Len(notify_hist)]
          IN notify.wait = IF h.result = "flood" THEN 10 * (h.retry_after + 2) ELSE 50

\* one call went through flood control and another failure before its third
\* transport call
C24_Witness ==
    \E i \in DOMAIN notify_hist :
        /\ NotifySameCallNext(i) /\ NotifySameCallNext(i + 1)
        /\ notify_hist[i].result = "flood"
        /\ notify_hist[i].retry_after = 10
        /\ notify_hist[i + 1].result = "error"
        /\ notify_hist[i + 1].time - notify_hist[i].time = 120
        /\ notify_hist[i + 2].time - notify_hist[i + 1].time = 50

(***************************************************************************)
(* C25: a record of level INFO or above logged through the root logger of  *)
(* setup_logging has its formatted line appended to the ring buffer before *)
(* the Telegram handler's emit is called for it, so the file built for a   *)
(* record from WARNING up holds the buffered earlier lines and its own     *)
(* line; a record below INFO is not buffered, and emit itself appends      *)
(* nothing.                                                                *)
(***************************************************************************)
IsLog == IsCall /\ last'.op = "log"

HeaderAndLines(lines) ==
    <<"=== POSLEDNIE LOGI (">> \o Digits(Len(lines)) \o <<" zapisey) ===\n">>
    \o JoinLines(lines)

C25_FedBeforeEmit ==
    [][/\ (IsLog /\ CallRecord.levelno >= INFO /\ ~FormatRaises(CallRecord)) =>
             /\ appended' = Append(appended, Format("log_format", CallRecord))
             /\ buffer'[Len(buffer')] = Format("log_format", CallRecord)
             /\ CallRecord.levelno >= WARNING =>
                   /\ Len(Appended) = 1
                   /\ StartsWith(Appended[1].file, HeaderAndLines(buffer'))
       /\ (IsLog /\ CallRecord.levelno < INFO) =>
             (appended' = appended /\ buffer' = buffer)
       /\ IsEmit => (appended' = appended /\ buffer' = buffer)]_vars

\* C25 as the claim words it: every call of emit appends the record's
\* formatted string to the ring buffer
C25_EmitAppends ==
    [][(IsEmit /\ ~FormatRaises(CallRecord)) =>
          appended' = Append(appended, Format(formatter, CallRecord))]_vars

\* a WARNING record logged after an INFO record: both lines are in the buffer
\* and in the file
C25_Witness ==
    /\ last.op = "log"
    /\ last.record.levelno = WARNING
    /\ ~last.record.bad
    /\ Len(buffer) = 2
    /\ buffer[2] = Format("log_format", last.record)
    /\ queue # <<>>
    /\ StartsWith(queue[Len(queue)].file, HeaderAndLines(buffer))

(***************************************************************************)
(* C26: once the worker task has ended nothing starts another: the task    *)
(* stays recorded, _start_worker changes nothing, no transport call is     *)
(* made any more, and emit goes on putting items on the queue.             *)
(***************************************************************************)
WorkerEnded == worker_task # 0 /\ pc[worker_task] = "done"

C26_NoRestart ==
    /\ [](worker_task # 0 /\ \A w \in Tasks : w # worker_task => pc[w] = "none")
    /\ [][WorkerEnded =>
             /\ pc' = pc
             /\ worker_task' = worker_task
             /\ attempts' = attempts
             /\ IsLog => (enq' = enq + 1 /\ Len(queue') = Len(queue) + 1)]_vars

\* the task ended with an item in hand; a record logged afterwards was put on
\* the queue and _start_worker was called again
C26_Witness ==
    /\ WorkerEnded
    /\ item[worker_task] # NoItem
    /\ last.op = "log"
    /\ last.at[worker_task] = "done"
    /\ enq = last.enq + 1
    /\ queue # <<>>
    /\ start_calls > 1

(***************************************************************************)
(* C27: every item put on the queue is a string or a file item flagged     *)
(* as_file, and the worker holds an item as sent only after a transport    *)
(* call for it, send_message for a string and send_document for a file,    *)
(* has returned.                                                           *)
(***************************************************************************)
IsString(it) == "text" \in DOMAIN it
IsFlaggedFile(it) == "as_file" \in DOMAIN it /\ it.as_file = TRUE

C27_SentAfterCall ==
    /\ \A i \in DOMAIN puts : IsString(puts[i]) \/ IsFlaggedFile(puts[i])
    /\ \A w \in Tasks :
          (sent[w] /\ item[w].id # 0) =>
             \E i \in AttemptsOf(item[w].id) :
                /\ attempts[i].result = "ok"
                /\ attempts[i].call = IF IsString(puts[item[w].id])
                                      THEN "send_message" ELSE "send_document"

\* a string was sent by send_message and the worker now holds a file as sent
\* after send_document
C27_Witness ==
    /\ \E i \in DOMAIN attempts :
          attempts[i].result = "ok" /\ attempts[i].call = "send_message"
    /\ \E w \in Tasks :
          /\ sent[w] /\ item[w].id # 0
          /\ IsFlaggedFile(item[w])
          /\ \E i \in AttemptsOf(item[w].id) :
                attempts[i].result = "ok" /\ attempts[i].call = "send_document"

(***************************************************************************)
(* C28: the sleep of a failure is also slept after an item's last call,    *)
(* before the drop is logged: the first call for the next item comes that  *)
(* sleep plus RATE_LIMIT after the last call of an abandoned item.         *)
(***************************************************************************)
LastOfAbandoned(i) ==
    /\ i < Len(attempts)
    /\ attempts[i + 1].id # attempts[i].id
    /\ attempts[i].result # "ok"

C28_SleepBeforeDrop ==
    /\ [](/\ \A i \in DOMAIN attempts :
                LastOfAbandoned(i) =>
                   /\ attempts[i].n = MAX_RETRIES - 1
                   /\ attempts[i].result = "flood" =>
                         attempts[i + 1].time - attempts[i].time
                            = 10 * (attempts[i].retry_after + 2) + RATE_LIMIT
                   /\ attempts[i + 1].time - attempts[i].time
                         = attempts[i].wait + RATE_LIMIT
          /\ DropTraces = Cardinality(AbandonedIds))
    /\ [][DropTraces' > DropTraces =>
             \E w \in Tasks :
                /\ pc[w] = "sleep"
                /\ attempts[Len(attempts)].id = item[w].id
                /\ wait_time[w] = attempts[Len(attempts)].wait
                /\ now' = now + wait_time[w]]_vars

\* an item was given up after a third failure with a sleep of its own, and
\* the next item was tried that sleep and RATE_LIMIT later
C28_Witness ==
    \E i \in DOMAIN attempts :
        /\ LastOfAbandoned(i)
        /\ attempts[i].result = "error"
        /\ attempts[i].wait > 0
        /\ attempts[i + 1].time - attempts[i].time = attempts[i].wait + RATE_LIMIT

(***************************************************************************)
(* C29: every transport call for an item, the first and the retries, is    *)
(* given what emit put on the queue: the same bytes, file name and         *)
(* caption; a failed call leaves the item as it was put.                   *)
(***************************************************************************)
\* what a transport call for the item as it was put would be given
PutPayload(id) ==
    IF IsString(puts[id]) THEN [text |-> puts[id].text]
    ELSE [document |-> puts[id].file, filename |-> puts[id].filename,
          caption |-> puts[id].caption]

C29_SamePayload ==
    /\ \A i \in DOMAIN attempts : attempts[i].payload = PutPayload(attempts[i].id)
    /\ \A i \in DOMAIN queue : queue[i] = puts[queue[i].id]
    /\ \A w \in Tasks : item[w].id # 0 => item[w] = puts[item[w].id]

\* a file was sent at the third call, after two failed calls with the same
\* bytes, file name and caption
C29_Witness ==
    \E i \in FileAttempts :
        /\ attempts[i].result = "ok"
        /\ attempts[i].n = MAX_RETRIES - 1
        /\ attempts[i].payload.document # <<>>
        /\ \A j \in AttemptsOf(attempts[i].id) :
              attempts[j].payload = attempts[i].payload
        /\ Cardinality(AttemptsOf(attempts[i].id)) = MAX_RETRIES

NotifyStepEnds(result) ==
    /\ Len(notify_hist') = Len(notify_hist) + 1
    /\ notify_hist'[Len(notify_hist')].result = result

C31_MigrationBreaks ==
    /\ [](\A i \in DOMAIN notify_hist :
             notify_hist[i].result = "migrate" => ~NotifySameCallNext(i))
    /\ [][NotifyStepEnds("migrate") =>
             /\ notify'.pc = "idle"
             /\ notify'.outcome = "returned"
             /\ ~notify'.sent
             /\ now' = now
             /\ Len(NewConsole) = 2
             /\ NewConsole[1].levelno = WARNING
             /\ NewConsole[2] =
                   [levelno |-> ERROR,
                    msg |-> <<"Ne udalos otpravit info log posle ">>
                            \o Digits(notify.max_retries) \o <<" popytok">>]]_vars

\* the first transport call of a call with three retries allowed met a
\* migration and the call is over
C31_Witness ==
    /\ notify.pc = "idle"
    /\ notify.max_retries = MAX_RETRIES
    /\ notify_hist # <<>>
    /\ LET h == notify_hist[Len(notify_hist)]
       IN /\ h.call = notify.calls
          /\ h.result = "migrate"
          /\ h.n = 0
    /\ GiveUpTraces(console, MAX_RETRIES) >= 1

(***************************************************************************)
(* C32: send_chat_info_log called with max_retries <= 0 makes no transport *)
(* call and logs the not-sent error; called with max_retries >= 1 it makes *)
(* at least one transport call.                                            *)
(***************************************************************************)
\* the step is the entry of a call of send_chat_info_log
NotifyEnters == notify'.calls = notify.calls + 1

C32_NonPositiveMaxRetries ==
    /\ [](notify.calls > 0 =>
            /\ notify.max_retries <= 0 => NotifyAttemptsOf(notify.calls) = {}
            /\ (notify.max_retries >= 1 /\ notify.pc = "idle") =>
                  NotifyAttemptsOf(notify.calls) # {})
    /\ [][NotifyEnters =>
             IF notify'.max_retries <= 0
             THEN /\ notify'.pc = "idle"
                  /\ notify'.outcome = "returned"
                  /\ notify_hist' = notify_hist
                  /\ now' = now
                  /\ NewConsole =
                        <<[levelno |-> ERROR,
                           msg |-> <<"Ne udalos otpravit info log posle ">>
                                   \o Digits(notify'.max_retries)
                                   \o <<" popytok">>]>>
             ELSE /\ notify'.pc = "send"
                  /\ NewConsole = <<>>]_vars

\* a first call with max_retries >= 1 made a transport call, and a second
\* call with a negative max_retries returned with the error and no call
C32_Witness ==
    /\ notify.calls = 2
    /\ notify.pc = "idle"
    /\ notify.max_retries < 0
    /\ NotifyAttemptsOf(2) = {}
    /\ GiveUpTraces(console, notify.max_retries) >= 1
    /\ \E i \in NotifyAttemptsOf(1) : notify_hist[i].m >= 1

(***************************************************************************)
(* C33: safe_polling ends only after dp.start_polling returned or failed   *)
(* with an authorization error.  After a flood-control failure it sleeps   *)
(* retry_after + 2 seconds, after a network failure 5 seconds, after any   *)
(* other exception 3 seconds, and then calls dp.start_polling again,       *)
(* however many restarts were made before.                                 *)
(***************************************************************************)
\* the sleep that follows an outcome of dp.start_polling, tenths of a second
PollSleepAfter(h) ==
    CASE h.result = "flood"   -> 10 * (h.retry_after + 2)
      [] h.result = "network" -> 50
      [] h.result = "other"   -> 30
      [] OTHER                -> 0

PollTemporary == {"flood", "network", "other"}

C33_SafePolling ==
    /\ [](/\ Len(polling_hist) <= polling.starts
          /\ polling.pc = "done" =>
                /\ polling_hist # <<>>
                /\ polling_hist[Len(polling_hist)].result \in {"ok", "unauthorized"}
          /\ \A i \in DOMAIN polling_hist :
                /\ polling_hist[i].n = i
                /\ polling_hist[i].result \in {"ok", "unauthorized"} =>
                      i = Len(polling_hist) /\ polling.pc = "done"
                /\ (polling_hist[i].result \in PollTemporary
                    /\ i < Len(polling_hist)) =>
                      polling_hist[i + 1].time =
                         polling_hist[i].time + PollSleepAfter(polling_hist[i])
                /\ (polling_hist[i].result \in PollTemporary
                    /\ i = Len(polling_hist)) =>
                      \/ polling.pc = "sleep"
                         /\ polling.wait = PollSleepAfter(polling_hist[i])
                      \/ polling.pc = "polling" /\ polling.starts = i + 1
                         /\ now = polling_hist[i].time
                                  + PollSleepAfter(polling_hist[i]))
    /\ [][polling.pc = "sleep" =>
             /\ polling'.pc = "polling"
             /\ polling'.starts = polling.starts + 1
             /\ now' = now + PollSleepAfter(polling_hist[Len(polling_hist)])]_vars

\* dp.start_polling failed with flood control, a network error and another
\* exception, was called a fourth time after the three sleeps, and returned
C33_Witness ==
    /\ polling.pc = "done"
    /\ Len(polling_hist) = 4
    /\ polling_hist[1].result = "flood"
    /\ polling_hist[1].retry_after = 10
    /\ polling_hist[2].result = "network"
    /\ polling_hist[3].result = "other"
    /\ polling_hist[4].result = "ok"
    /\ polling_hist[4].time = 120 + 50 + 30

(***************************************************************************)
(* C34: format_schedule returns messages that are, in order, the header    *)
(* and the day blocks of the weekdays in ascending order, each message     *)
(* made of whole pieces; when the header and every day block have at most  *)
(* 4000 characters so has every message; when no lesson passes the week    *)
(* filter the result is the empty list.                                    *)
(***************************************************************************)
\* the lessons of the call that pass the week filter
Passing ==
    SelectSeq(schedule.lessons,
              LAMBDA l : \/ schedule.week \notin {"plus", "minus"}
                         \/ l.week_mark \in {schedule.week, "every", "None"})

\* the header and then the block of every weekday that has a passing lesson,
\* Monday first
Pieces ==
    <<schedule_header(schedule.week, schedule.header_prefix)>>
    \o LET days == SelectSeq(<<1, 2, 3, 4, 5, 6, 7>>,
                             LAMBDA wd : \E i \in DOMAIN Passing :
                                            Passing[i].weekday = wd)
       IN [i \in DOMAIN days |-> day_block(Passing, days[i])]

\* messages are the pieces, in order, each message one or more whole pieces
RECURSIVE Grouped(_, _)
Grouped(messages, pieces) ==
    IF messages = <<>> THEN pieces = <<>>
    ELSE \E k \in 1..Len(pieces) :
            /\ messages[1] = Concat(SubSeq(pieces, 1, k))
            /\ Grouped(Tail(messages), SubSeq(pieces, k + 1, Len(pieces)))

C34_FormatSchedule ==
    schedule.pc = "returned" =>
        LET pieces == Pieces
            result == schedule.result
        IN IF Passing = <<>>
           THEN result = <<>>
           ELSE /\ Grouped(result, pieces)
                /\ Concat(result) = Concat(pieces)
                /\ (\A i \in DOMAIN pieces : Len(pieces[i]) <= 4000) =>
                      \A j \in DOMAIN result : Len(result[j]) <= 4000

\* the lesson of Tuesday came before the lesson of Monday, both blocks fit
\* but not together: the first message is the header and Monday, the second
\* is Tuesday
C34_Witness ==
    /\ schedule.pc = "returned"
    /\ Len(schedule.lessons) = 2
    /\ schedule.lessons[1].weekday = 2
    /\ schedule.lessons[2].weekday = 1
    /\ LET pieces == Pieces
       IN /\ Len(pieces) = 3
          /\ \A i \in DOMAIN pieces : Len(pieces[i]) <= 4000
          /\ schedule.result = <<pieces[1] \o pieces[2], pieces[3]>>

====
